---------------------------- MODULE Spec2Model ----------------------------
(***************************************************************************)
(* A model of cbpatch: an append-only patch store (Patch, Bucket,          *)
(* Categories, Master) over an object-storage backend.                     *)
(*                                                                         *)
(* Representation.  A Go string and the content of a file are sequences of *)
(* byte tokens.  Most tokens stand for one byte; BLOB stands for a run of  *)
(* BlobLen ordinary bytes, so that staging files reach the size threshold  *)
(* of Bucket.IsFull.  encoding/csv, compress/zlib and crypto/md5 are the   *)
(* Go standard library; they are modelled by what they do to these token   *)
(* sequences (csv at the level of commas, quotes and line ends; zlib as a  *)
(* framed copy of its input; md5 as a collision-free digest).              *)
(***************************************************************************)
EXTENDS Integers, Sequences, FiniteSets, TLC

VARIABLES
    Buckets,      \* Master.Buckets: the in-memory shard descriptors, in order
    Categories,   \* Master.Categories: Nil or the categories descriptor
    CategoryItems,\* Master.CategoryItems / Categories.CategoryItems
    UnixTime,     \* Master.UnixTime
    files,        \* the working directory Master.Dir: file name -> content
    objects,      \* the storage backend: object name -> [bytes, created]
    now,          \* the wall clock, in seconds (time.Now().Unix())
    rBuckets,     \* Buckets of a second, reading Master / a fresh descriptor
    rfiles,       \* the working directory of the reading side
    ret,          \* what the last call returned
    result,       \* the value the last call returned, when it returns one
    hist,         \* history recorded for the properties
    pc            \* where the calling sequence is

vars == <<Buckets, Categories, CategoryItems, UnixTime, files, objects, now,
          rBuckets, rfiles, ret, result, hist, pc>>

---------------------------------------------------------------------------
(* Byte tokens *)

COMMA == ","
DQ == "DQ"
CR == "CR"
LF == "LF"
BLOB == "BLOB"
ZHDR == "ZLIB"
ZEND == "ADLER"
MD5 == "md5"

\* Bucket.IsFull: "position > 2048000"
IsFullThreshold == 2048000

\* The number of bytes the token BLOB stands for: a row "+,a,BLOB\n" is
\* 1,024,000 bytes, so two such rows are exactly the threshold of IsFull.
BlobLen == (IsFullThreshold \div 2) - 5

ByteLen(c) == IF c = BLOB THEN BlobLen ELSE 1

RECURSIVE Size(_)
Size(bytes) == IF bytes = <<>> THEN 0 ELSE ByteLen(Head(bytes)) + Size(Tail(bytes))

\* a nil pointer
Nil == [nil |-> TRUE]
NoHash == <<>>

\* what a call returned: the operation, whether it returned an error, and
\* how the backend answered it
Ret(op, err, backend) == [op |-> op, err |-> err, backend |-> backend]

---------------------------------------------------------------------------
(* encoding/csv, as Bucket.AddPatch and Bucket.VerifyUnzipped use it *)

\* csv.Writer.fieldNeedsQuotes (the model has no leading spaces and no "\.")
fieldNeedsQuotes(field) ==
    /\ field # <<>>
    /\ \E i \in 1..Len(field) : field[i] \in {COMMA, DQ, CR, LF}

RECURSIVE quoteBody(_)
quoteBody(f) ==
    IF f = <<>> THEN <<>>
    ELSE (IF Head(f) = DQ THEN <<DQ, DQ>> ELSE <<Head(f)>>) \o quoteBody(Tail(f))

writeField(f) == IF fieldNeedsQuotes(f) THEN <<DQ>> \o quoteBody(f) \o <<DQ>> ELSE f

RECURSIVE joinFields(_)
joinFields(record) ==
    IF record = <<>> THEN <<>>
    ELSE IF Len(record) = 1 THEN writeField(record[1])
    ELSE writeField(record[1]) \o <<COMMA>> \o joinFields(Tail(record))

\* csv.Writer.Write followed by Flush: the bytes of one record
csvWrite(record) == joinFields(record) \o <<LF>>

\* csv.Reader.readLine: "\r\n" at the end of every input line becomes "\n",
\* also inside a quoted field that spans lines
RECURSIVE readLineNormalize(_)
readLineNormalize(bytes) ==
    IF bytes = <<>> THEN <<>>
    ELSE IF Len(bytes) >= 2 /\ bytes[1] = CR /\ bytes[2] = LF
         THEN <<LF>> \o readLineNormalize(Tail(Tail(bytes)))
         ELSE <<Head(bytes)>> \o readLineNormalize(Tail(bytes))

\* csv.Reader.readRecord over the whole input: the records, each with the
\* error flag Read returns with it.  mode: where the parser is in a field.
RECURSIVE readRecords(_, _, _, _, _, _, _)
readRecords(s, i, mode, field, fields, bad, out) ==
    LET emit(fs, e) == Append(out, [line |-> fs, err |-> e]) IN
    IF i > Len(s) THEN
        CASE mode = "start" /\ fields = <<>> -> out
          [] mode = "start" -> emit(Append(fields, <<>>), bad)
          [] mode = "plain" -> emit(Append(fields, field), bad)
          [] mode = "afterq" -> emit(Append(fields, field), bad)
          [] mode = "quoted" -> emit(Append(fields, field), TRUE)
          [] OTHER -> emit(fields, TRUE)
    ELSE LET c == s[i] IN
      CASE mode = "start" ->
             IF c = DQ THEN readRecords(s, i + 1, "quoted", <<>>, fields, bad, out)
             ELSE IF c = COMMA THEN readRecords(s, i + 1, "start", <<>>, Append(fields, <<>>), bad, out)
             ELSE IF c = LF THEN
                 IF fields = <<>> THEN readRecords(s, i + 1, "start", <<>>, <<>>, FALSE, out)
                 ELSE readRecords(s, i + 1, "start", <<>>, <<>>, FALSE, emit(Append(fields, <<>>), bad))
             ELSE readRecords(s, i + 1, "plain", <<c>>, fields, bad, out)
        [] mode = "plain" ->
             IF c = COMMA THEN readRecords(s, i + 1, "start", <<>>, Append(fields, field), bad, out)
             ELSE IF c = LF THEN readRecords(s, i + 1, "start", <<>>, <<>>, FALSE, emit(Append(fields, field), bad))
             ELSE IF c = DQ THEN readRecords(s, i + 1, "skip", <<>>, fields, TRUE, out)
             ELSE readRecords(s, i + 1, "plain", Append(field, c), fields, bad, out)
        [] mode = "quoted" ->
             IF c = DQ THEN readRecords(s, i + 1, "afterq", field, fields, bad, out)
             ELSE readRecords(s, i + 1, "quoted", Append(field, c), fields, bad, out)
        [] mode = "afterq" ->
             IF c = DQ THEN readRecords(s, i + 1, "quoted", Append(field, DQ), fields, bad, out)
             ELSE IF c = COMMA THEN readRecords(s, i + 1, "start", <<>>, Append(fields, field), bad, out)
             ELSE IF c = LF THEN readRecords(s, i + 1, "start", <<>>, <<>>, FALSE, emit(Append(fields, field), bad))
             ELSE readRecords(s, i + 1, "skip", <<>>, Append(fields, field), TRUE, out)
        [] OTHER ->
             IF c = LF THEN readRecords(s, i + 1, "start", <<>>, <<>>, FALSE, emit(fields, TRUE))
             ELSE readRecords(s, i + 1, "skip", <<>>, fields, TRUE, out)

\* csv.NewReader(file) read until io.EOF
csvReadAll(bytes) == readRecords(readLineNormalize(bytes), 1, "start", <<>>, <<>>, FALSE, <<>>)

---------------------------------------------------------------------------
(* compress/zlib and crypto/md5 *)

\* zlib.NewWriter + io.Copy + Close: header, the deflated input, checksum
zlibWrite(bytes) == <<ZHDR>> \o bytes \o <<ZEND>>

\* zlib.NewReader fails on a bad header; the copy fails on a bad stream
zlibHeaderOk(z) == Len(z) >= 1 /\ z[1] = ZHDR
zlibStreamOk(z) ==
    /\ Len(z) >= 2 /\ z[1] = ZHDR /\ z[Len(z)] = ZEND
    /\ \A i \in 2..(Len(z) - 1) : z[i] \notin {ZHDR, ZEND}
zlibRead(z) == SubSeq(z, 2, Len(z) - 1)

\* checksumReadSeeker: the md5 digest of the whole file, as a hex string.
\* Modelled as collision-free: the digest determines the bytes.
checksumReadSeeker(bytes) == <<MD5>> \o bytes

---------------------------------------------------------------------------
(* Patch (DefaultPatch) *)

ActSet == <<"+">>
ActDelete == <<"-">>
ActClearAll == <<"*">>

DefaultPatch(action, key, values) == [Action |-> action, Key |-> key, Values |-> values]

\* Master.Validation, the caller's row validator.  The callback itself is
\* supplied by the caller; the one modelled accepts exactly the rows whose
\* first column is one of the three action tags.
Validation(line) == Len(line) >= 1 /\ line[1] \in {ActSet, ActDelete, ActClearAll}

---------------------------------------------------------------------------
(* Bucket *)

FileName(number) == ToString(number) \o ".csv"
ZippedFileName(number) == ToString(number) \o ".csv.zlib"

\* os.OpenFile(path, O_RDWR|O_CREATE): an existing file keeps its content
openOrCreate(fs, name) ==
    IF name \in DOMAIN fs THEN fs ELSE (name :> <<>>) @@ fs

setFile(fs, name, bytes) == (name :> bytes) @@ fs

\* the content of a file, empty when it does not exist
fileOr(fs, name) == IF name \in DOMAIN fs THEN fs[name] ELSE <<>>

NewBucket(relativeFilePath, remoteFilePath, number, zippedHash, unzippedHash, patchCount) ==
    [ RelativeFilePath |-> relativeFilePath,
      RemoteFilePath   |-> remoteFilePath,
      Number           |-> number,
      ZippedHash       |-> zippedHash,
      UnzippedHash     |-> unzippedHash,
      PatchCount       |-> patchCount,
      IsChanged        |-> FALSE,
      IsDeleted        |-> FALSE,
      Patches          |-> <<>> ]

BucketInit(b, fs) ==
    openOrCreate(openOrCreate(fs, FileName(b.Number)), ZippedFileName(b.Number))

\* The row loop of Bucket.VerifyUnzipped over the records read; Read's error
\* is ignored unless it is io.EOF, so only the fields it returned count.
RECURSIVE verifyRows(_, _, _)
verifyRows(records, i, patches) ==
    IF i > Len(records) THEN [err |-> FALSE, Patches |-> patches]
    ELSE LET line == records[i].line IN
         IF ~Validation(line) THEN [err |-> TRUE, Patches |-> patches]
         ELSE IF Len(line) < 2 THEN [err |-> TRUE, Patches |-> patches]
         ELSE IF Len(line) = 2
              THEN verifyRows(records, i + 1,
                     Append(patches, DefaultPatch(line[1], line[2], <<>>)))
              ELSE verifyRows(records, i + 1,
                     Append(patches, DefaultPatch(line[1], line[2], SubSeq(line, 3, Len(line)))))


VerifyUnzipped(b, fs) ==
    IF b.UnzippedHash # checksumReadSeeker(fs[FileName(b.Number)])
    THEN [err |-> TRUE, b |-> b]
    ELSE LET r == verifyRows(csvReadAll(fs[FileName(b.Number)]), 1, b.Patches)
         IN  [err |-> r.err, b |-> [b EXCEPT !.Patches = r.Patches]]

\* Unzip without its checksum comparison
UnzipUnverified(b, fs) ==
    LET z == fs[ZippedFileName(b.Number)] IN
    IF zlibStreamOk(z) THEN [err |-> FALSE, fs |-> setFile(fs, FileName(b.Number), zlibRead(z))]
    ELSE [err |-> TRUE, fs |-> setFile(fs, FileName(b.Number), <<>>)]

\* A failed copy out of the zlib reader leaves the truncated staging file
\* with what was written before the error; it is modelled as left empty.
Unzip(b, fs) ==
    LET z == fs[ZippedFileName(b.Number)] IN
    IF b.ZippedHash # checksumReadSeeker(z) THEN [err |-> TRUE, fs |-> fs]
    ELSE IF ~zlibHeaderOk(z) THEN [err |-> TRUE, fs |-> fs]
    ELSE IF ~zlibStreamOk(z) THEN [err |-> TRUE, fs |-> setFile(fs, FileName(b.Number), <<>>)]
    ELSE [err |-> FALSE, fs |-> setFile(fs, FileName(b.Number), zlibRead(z))]

\* Bucket.Download with every backend error fatal, the not-found included
BucketDownloadStrict(b, fs, st, backend) ==
    IF backend = "ok" /\ b.RemoteFilePath \in DOMAIN st
    THEN LET fs1 == setFile(fs, ZippedFileName(b.Number), st[b.RemoteFilePath].bytes)
             u == Unzip(b, fs1)
             v == VerifyUnzipped(b, u.fs)
         IN  IF u.err THEN [err |-> TRUE, b |-> b, fs |-> u.fs, called |-> TRUE, step |-> "unzip"]
             ELSE [err |-> v.err, b |-> v.b, fs |-> u.fs, called |-> TRUE,
                   step |-> IF v.err THEN "verify" ELSE "done"]
    ELSE [err |-> TRUE, b |-> b, fs |-> setFile(fs, ZippedFileName(b.Number), <<>>),
          called |-> TRUE, step |-> "storage"]

\* Storage.DownloadWriter into the truncated compressed file.  backend is
\* "ok", or "error" for a backend error other than ErrObjectNotExist; an
\* object that does not exist is the tolerated not-found.  step names the
\* statement that returned: the storage call, Unzip, VerifyUnzipped, or the
\* final return nil.
BucketDownload(b, fs, st, backend) ==
    LET zname == ZippedFileName(b.Number)
        got == IF backend = "ok" /\ b.RemoteFilePath \in DOMAIN st
               THEN st[b.RemoteFilePath].bytes ELSE <<>>
        fs1 == setFile(fs, zname, got)
    IN  IF backend # "ok"
        THEN [err |-> TRUE, b |-> b, fs |-> fs1, called |-> TRUE, step |-> "storage"]
        ELSE LET u == Unzip(b, fs1) IN
             IF u.err THEN [err |-> TRUE, b |-> b, fs |-> u.fs, called |-> TRUE, step |-> "unzip"]
             ELSE LET v == VerifyUnzipped(b, u.fs) IN
                  [err |-> v.err, b |-> v.b, fs |-> u.fs, called |-> TRUE,
                   step |-> IF v.err THEN "verify" ELSE "done"]

patchRecord(patch) == <<patch.Action, patch.Key>> \o patch.Values

\* (AddPatch writing its row at the start of a truncated staging file)
BucketAddPatchRewrite(b, fs, patch, io) ==
    IF io # "ok" THEN [err |-> TRUE, b |-> b, fs |-> fs]
    ELSE [err |-> FALSE,
          b   |-> [b EXCEPT !.IsChanged = TRUE, !.Patches = Append(@, patch)],
          fs  |-> setFile(fs, FileName(b.Number), csvWrite(patchRecord(patch)))]

\* io "ok", or "error" for a failed Seek or Flush (nothing is appended)
BucketAddPatch(b, fs, patch, io) ==
    IF io # "ok" THEN [err |-> TRUE, b |-> b, fs |-> fs]
    ELSE [err |-> FALSE,
          b   |-> [b EXCEPT !.IsChanged = TRUE, !.Patches = Append(@, patch)],
          fs  |-> setFile(fs, FileName(b.Number),
                          fs[FileName(b.Number)] \o csvWrite(patchRecord(patch)))]

\* IsFull with >= in place of >
IsFullAtThreshold(b, fs) == Size(fs[FileName(b.Number)]) >= IsFullThreshold

IsFull(b, fs) == Size(fs[FileName(b.Number)]) > IsFullThreshold

Compress(b, fs) ==
    setFile(fs, ZippedFileName(b.Number), zlibWrite(fs[FileName(b.Number)]))

RECURSIVE validateRows(_, _)
validateRows(records, i) ==
    IF i > Len(records) THEN TRUE
    ELSE Validation(records[i].line) /\ validateRows(records, i + 1)

\* TRUE when VerifyZipped returns nil
VerifyZipped(b, fs) ==
    LET z == fs[ZippedFileName(b.Number)] IN
    /\ zlibHeaderOk(z)
    /\ zlibStreamOk(z)
    /\ validateRows(csvReadAll(zlibRead(z)), 1)

Hash(b, fs) ==
    [b EXCEPT !.UnzippedHash = checksumReadSeeker(fs[FileName(b.Number)]),
              !.ZippedHash = checksumReadSeeker(fs[ZippedFileName(b.Number)])]

\* Storage.GetUploadWriter + io.Copy + Close: the object is stored whole
storagePut(st, name, bytes, t) == (name :> [bytes |-> bytes, created |-> t]) @@ st

Upload(b, fs, st, t) == storagePut(st, b.RemoteFilePath, fs[ZippedFileName(b.Number)], t)

---------------------------------------------------------------------------
(* Master: names *)

RemoteDir == "r"
masterFilename == "master.csv"

joinPath(a, b) == a \o "/" \o b

\* strconv.FormatInt(m.UnixTime, 10) + "-" + ZippedFileName
timestampName(unixTime, zippedFileName) == ToString(unixTime) \o "-" \o zippedFileName

EmptyDir == <<>>
EmptyStorage == <<>>

---------------------------------------------------------------------------
(* Master.DownloadBuckets *)

\* the loop fetching every shard, whatever its staging file holds
RECURSIVE downloadBucketsAlways(_, _, _, _, _, _)
downloadBucketsAlways(bs, i, fs, st, failAt, calls) ==
    IF i > Len(bs) THEN [err |-> FALSE, Buckets |-> bs, fs |-> fs, calls |-> calls]
    ELSE LET d == BucketDownload(bs[i], BucketInit(bs[i], fs), st,
                                 IF failAt = i THEN "error" ELSE "ok")
         IN  IF d.err
             THEN [err |-> TRUE, Buckets |-> [bs EXCEPT ![i] = d.b], fs |-> d.fs,
                   calls |-> Append(calls, bs[i].Number)]
             ELSE downloadBucketsAlways([bs EXCEPT ![i] = d.b], i + 1, d.fs, st, failAt,
                                        Append(calls, bs[i].Number))

\* The loop from bucket i on.  failAt: the index of the bucket at which the
\* backend answers with an error other than not-found (0: at none).
\* calls: the numbers of the shards fetched from the backend.
RECURSIVE downloadBucketsFrom(_, _, _, _, _, _)
downloadBucketsFrom(bs, i, fs, st, failAt, calls) ==
    IF i > Len(bs) THEN [err |-> FALSE, Buckets |-> bs, fs |-> fs, calls |-> calls]
    ELSE LET fs1 == BucketInit(bs[i], fs)
             v == VerifyUnzipped(bs[i], fs1)
         IN  IF ~v.err
             THEN downloadBucketsFrom([bs EXCEPT ![i] = v.b], i + 1, fs1, st, failAt, calls)
             ELSE LET d == BucketDownload(v.b, fs1, st, IF failAt = i THEN "error" ELSE "ok")
                      bs1 == [bs EXCEPT ![i] = d.b]
                      calls1 == Append(calls, bs[i].Number)
                  IN  IF d.err
                      THEN [err |-> TRUE, Buckets |-> bs1, fs |-> d.fs, calls |-> calls1]
                      ELSE downloadBucketsFrom(bs1, i + 1, d.fs, st, failAt, calls1)

DownloadBuckets(bs, fs, st, failAt) == downloadBucketsFrom(bs, 1, fs, st, failAt, <<>>)

---------------------------------------------------------------------------
(* Master.CompileList and Master.CalculateWastage *)

EmptyList == <<>>

\* (the switch without its "-" case)
applyPatchNoDelete(list, patch) ==
    IF patch.Action = ActSet THEN (patch.Key :> patch.Values) @@ list
    ELSE IF patch.Action = ActClearAll THEN EmptyList
    ELSE list

\* (the switch with a "+" case that keeps the value a key already has)
applyPatchKeepFirst(list, patch) ==
    IF patch.Action = ActSet THEN list @@ (patch.Key :> patch.Values)
    ELSE IF patch.Action = ActDelete THEN [k \in DOMAIN list \ {patch.Key} |-> list[k]]
    ELSE IF patch.Action = ActClearAll THEN EmptyList
    ELSE list

\* the switch on patch.GetAction() in CompileList
applyPatch(list, patch) ==
    IF patch.Action = ActSet THEN (patch.Key :> patch.Values) @@ list
    ELSE IF patch.Action = ActDelete THEN [k \in DOMAIN list \ {patch.Key} |-> list[k]]
    ELSE IF patch.Action = ActClearAll THEN EmptyList
    ELSE list

\* for _, patch := range bucket.Patches
RECURSIVE compilePatches(_, _, _)
compilePatches(patches, j, list) ==
    IF j > Len(patches) THEN list
    ELSE compilePatches(patches, j + 1, applyPatch(list, patches[j]))

\* (the loop over m.Buckets without its IsDeleted continue)
RECURSIVE compileBucketsAll(_, _, _)
compileBucketsAll(bs, i, list) ==
    IF i > Len(bs) THEN list
    ELSE compileBucketsAll(bs, i + 1, compilePatches(bs[i].Patches, 1, list))

\* for _, bucket := range m.Buckets, with the IsDeleted continue
RECURSIVE compileBuckets(_, _, _)
compileBuckets(bs, i, list) ==
    IF i > Len(bs) THEN list
    ELSE IF bs[i].IsDeleted THEN compileBuckets(bs, i + 1, list)
    ELSE compileBuckets(bs, i + 1, compilePatches(bs[i].Patches, 1, list))

CompileList(bs) == compileBuckets(bs, 1, EmptyList)

\* The first loop of CalculateWastage: changes, key -> its history, a list
\* of (bucketKey, patchKey).  No shard is skipped.
RECURSIVE wastagePatches(_, _, _, _)
wastagePatches(patches, bucketKey, j, changes) ==
    IF j > Len(patches) THEN changes
    ELSE LET key == patches[j].Key
             c == [bucketKey |-> bucketKey, patchKey |-> j]
         IN  wastagePatches(patches, bucketKey, j + 1,
                 IF key \notin DOMAIN changes
                 THEN (key :> <<c>>) @@ changes
                 ELSE (key :> Append(changes[key], c)) @@ changes)

RECURSIVE wastageBuckets(_, _, _)
wastageBuckets(bs, i, changes) ==
    IF i > Len(bs) THEN changes
    ELSE wastageBuckets(bs, i + 1, wastagePatches(bs[i].Patches, i, 1, changes))

\* The second loop: how many changes are appended to wastage
RECURSIVE wastageLen(_, _)
wastageLen(changes, keys) ==
    IF keys = {} THEN 0
    ELSE LET k == CHOOSE x \in keys : TRUE
             n == Len(changes[k])
             w == IF n > 1 THEN (IF n % 2 = 0 THEN n ELSE n - 1) ELSE 0
         IN  w + wastageLen(changes, keys \ {k})

\* (rounding to nearest in place of the truncation)
wastePercentRounded(wasted, distinct) == (200 * wasted + distinct) \div (2 * distinct)

\* int((float64(wasted) / float64(distinct)) * 100) for distinct > 0: the
\* float64 value truncated toward zero.  For up to 9 distinct keys the
\* float64 product is the exact quotient or above it by less than one, so
\* the truncation is the integer quotient.
wastePercent(wasted, distinct) == (100 * wasted) \div distinct

\* float64(0)/float64(0) is NaN, and the conversion of NaN to int is
\* implementation-dependent: 0 on some targets, the most negative int on
\* others (here the most negative 32-bit value stands for it).
NaNAsInt == {0, (0 - 2147483647) - 1}

\* (the wasted changes as a percentage of all the patches)
CalculateWastageOfPatches(bs) ==
    LET changes == wastageBuckets(bs, 1, <<>>)
        total == wastageLen([k \in DOMAIN changes |-> changes[k] \o changes[k]], DOMAIN changes) \div 2
    IN  IF total = 0 THEN NaNAsInt
        ELSE { (100 * wastageLen(changes, DOMAIN changes)) \div total }

\* the values CalculateWastage may return
CalculateWastage(bs) ==
    LET changes == wastageBuckets(bs, 1, <<>>)
        distinct == Cardinality(DOMAIN changes)
    IN  IF distinct = 0 THEN NaNAsInt
        ELSE { wastePercent(wastageLen(changes, DOMAIN changes), distinct) }

---------------------------------------------------------------------------
(* CompileList and CalculateWastage applied to the logs of a Master whose  *)
(* shards hold their Patches.                                              *)

MaxLog == 4

KeyA == <<"A">>
KeyB == <<"B">>
KeyC == <<"C">>
KeyD == <<"D">>

Set(key, v) == DefaultPatch(ActSet, key, << <<v>> >>)
Delete(key) == DefaultPatch(ActDelete, key, <<>>)
ClearAll == DefaultPatch(ActClearAll, KeyA, <<>>)

LogPatches == { Set(KeyA, "1"), Set(KeyA, "2"), Delete(KeyA), ClearAll,
                Set(KeyB, "1"), DefaultPatch(ActSet, KeyC, <<>>) }

SeqUpTo(S, n) == UNION { [1..k -> S] : k \in 0..n }

loaded(number, patches, deleted) ==
    [NewBucket("", "", number, NoHash, NoHash, 0) EXCEPT !.Patches = patches,
                                                        !.IsDeleted = deleted]

\* the replay example: [Set(A,[1]), Set(B,[2]), Delete(A)], [ClearAll, Set(C,[3])]
ExampleReplay ==
    << loaded(1, << Set(KeyA, "1"), Set(KeyB, "2"), Delete(KeyA) >>, FALSE),
       loaded(2, << ClearAll, Set(KeyC, "3") >>, FALSE) >>

\* the wastage example: keys occurring 1, 2, 3 and 4 times
ExampleWastage ==
    << loaded(1, << Set(KeyA, "1"), Set(KeyB, "1"), Set(KeyC, "1"), Set(KeyD, "1"),
                    Delete(KeyB), Set(KeyC, "2") >>, FALSE),
       loaded(2, << Set(KeyD, "2"), Delete(KeyC), Delete(KeyD), Set(KeyD, "3") >>, TRUE) >>

LogInputs ==
    { << loaded(1, SubSeq(seq, 1, k), d[1]), loaded(2, SubSeq(seq, k + 1, Len(seq)), d[2]) >> :
        <<seq, k, d>> \in { x \in SeqUpTo(LogPatches, MaxLog) \X (0..MaxLog) \X (BOOLEAN \X BOOLEAN) :
                              x[2] <= Len(x[1]) } }
    \cup { ExampleReplay, ExampleWastage }

LogInit ==
    /\ Buckets \in LogInputs
    /\ files = EmptyDir
    /\ Categories = Nil
    /\ CategoryItems = <<>>
    /\ UnixTime = 0
    /\ objects = EmptyStorage
    /\ now = 0
    /\ rBuckets = <<>>
    /\ rfiles = EmptyDir
    /\ ret = Ret("Init", FALSE, "")
    /\ result = <<>>
    /\ hist = <<>>
    /\ pc = "loaded"

LogFrame == UNCHANGED <<files, Categories, CategoryItems, UnixTime, objects, now,
                        rBuckets, rfiles, hist>>

CallCompileList ==
    /\ pc = "loaded"
    /\ result' = CompileList(Buckets)
    /\ ret' = Ret("CompileList", FALSE, "")
    /\ pc' = "called"
    /\ UNCHANGED Buckets
    /\ LogFrame

CallCalculateWastage ==
    /\ pc = "loaded"
    /\ result' \in CalculateWastage(Buckets)
    /\ ret' = Ret("CalculateWastage", FALSE, "")
    /\ pc' = "called"
    /\ UNCHANGED Buckets
    /\ LogFrame

LogNext == CallCompileList \/ CallCalculateWastage

SpecLog == LogInit /\ [][LogNext]_vars

\* The claims' own reading of the log, independent of the loops above.

\* all patches, shard by shard in Buckets order, deleted shards skipped or not
RECURSIVE Flatten(_, _)
Flatten(bs, skipDeleted) ==
    IF bs = <<>> THEN <<>>
    ELSE (IF skipDeleted /\ Head(bs).IsDeleted THEN <<>> ELSE Head(bs).Patches)
         \o Flatten(Tail(bs), skipDeleted)

Front(seq) == SubSeq(seq, 1, Len(seq) - 1)

\* the left fold: Set overwrites, Delete removes, ClearAll empties
RECURSIVE FoldLeft(_)
FoldLeft(patches) ==
    IF patches = <<>> THEN EmptyList
    ELSE LET m == FoldLeft(Front(patches))
             p == patches[Len(patches)]
         IN  CASE p.Action = ActSet ->
                    [k \in DOMAIN m \cup {p.Key} |-> IF k = p.Key THEN p.Values ELSE m[k]]
               [] p.Action = ActDelete ->
                    IF p.Key \in DOMAIN m THEN [k \in DOMAIN m \ {p.Key} |-> m[k]] ELSE m
               [] p.Action = ActClearAll -> EmptyList
               [] OTHER -> m

\* C1: CompileList returns the left fold of the patches of the shards not
\* flagged IsDeleted, in Buckets order and Patches order, over the empty
\* mapping; the example log yields {C: [3]}.
C1_CompileIsLeftFold ==
    ret.op = "CompileList" =>
        /\ result = FoldLeft(Flatten(Buckets, TRUE))
        /\ (Buckets = ExampleReplay => result = (KeyC :> << <<"3">> >>))

C1_Witness ==
    /\ ret.op = "CompileList"
    /\ Buckets = ExampleReplay
    /\ result = (KeyC :> << <<"3">> >>)

\* the positions in patches of the patches that decide about key: a Set or
\* a Delete of the key, or a ClearAll
Deciding(patches, key) ==
    { i \in 1..Len(patches) :
        \/ patches[i].Action = ActClearAll
        \/ patches[i].Action \in {ActSet, ActDelete} /\ patches[i].Key = key }

Last(S) == CHOOSE i \in S : \A j \in S : j <= i

\* C11: last write wins.  In the result of CompileList a key is present
\* exactly when the last patch deciding about it, in shard order and patch
\* order over the shards not flagged IsDeleted, is a Set of the key, and
\* its value is then that Set's values list.
C11_LastWriteWins ==
    ret.op = "CompileList" =>
        LET patches == Flatten(Buckets, TRUE) IN
        \A key \in {KeyA, KeyB, KeyC, KeyD} :
            LET deciding == Deciding(patches, key) IN
            /\ key \in DOMAIN result
                  <=> (deciding # {} /\ patches[Last(deciding)].Action = ActSet)
            /\ key \in DOMAIN result => result[key] = patches[Last(deciding)].Values

\* two Sets of one key in two shards, neither flagged deleted, nothing
\* deciding about the key after them: the later shard's value is returned
C11_Witness ==
    /\ ret.op = "CompileList"
    /\ Buckets = << loaded(1, << Set(KeyA, "2") >>, FALSE),
                    loaded(2, << Set(KeyB, "1"), Set(KeyA, "1") >>, FALSE) >>
    /\ result[KeyA] = << <<"1">> >>

Occurrences(patches, key) == Cardinality({ i \in 1..Len(patches) : patches[i].Key = key })

KeysOf(patches) == { patches[i].Key : i \in 1..Len(patches) }

RECURSIVE SumOver(_, _)
SumOver(f, S) ==
    IF S = {} THEN 0
    ELSE LET x == CHOOSE y \in S : TRUE IN f[x] + SumOver(f, S \ {x})

\* a key occurring N > 1 times counts N when N is even and N - 1 when odd
WastedOf(patches) ==
    SumOver([k \in KeysOf(patches) |->
                LET n == Occurrences(patches, k)
                IN  IF n <= 1 THEN 0 ELSE IF n % 2 = 0 THEN n ELSE n - 1],
            KeysOf(patches))

---------------------------------------------------------------------------
(* Master.AddPatch *)

\* (the loop without its comparison: the last shard in Buckets order)
RECURSIVE latestFromNoCompare(_, _, _, _)
latestFromNoCompare(bs, i, maxBucketNumber, latest) ==
    IF i > Len(bs) THEN [max |-> maxBucketNumber, latest |-> latest]
    ELSE latestFromNoCompare(bs, i + 1, bs[i].Number, i)

\* the loop that finds latestBucket: the index of the shard with the
\* greatest Number above maxBucketNumber (0: latestBucket is nil)
RECURSIVE latestFrom(_, _, _, _)
latestFrom(bs, i, maxBucketNumber, latest) ==
    IF i > Len(bs) THEN [max |-> maxBucketNumber, latest |-> latest]
    ELSE IF bs[i].Number > maxBucketNumber
         THEN latestFrom(bs, i + 1, bs[i].Number, i)
         ELSE latestFrom(bs, i + 1, maxBucketNumber, latest)

\* fail names the call that returns an I/O error: "none", "isfull"
\* (latestBucket.IsFull), "init" (Bucket.Init of the new shard) or
\* "append" (Bucket.AddPatch).
AddPatch(bs, fs, patch, fail) ==
    LET l == latestFrom(bs, 1, 0, 0)
        full == l.latest # 0 /\ IsFull(bs[l.latest], fs)
    IN  IF l.latest # 0 /\ fail = "isfull"
        THEN [err |-> TRUE, Buckets |-> bs, fs |-> fs]
        ELSE IF l.latest = 0 \/ full
        THEN LET nb == NewBucket("", "", l.max + 1, NoHash, NoHash, 0) IN
             IF fail = "init" THEN [err |-> TRUE, Buckets |-> bs, fs |-> fs]
             ELSE LET a == BucketAddPatch(nb, BucketInit(nb, fs), patch,
                                          IF fail = "append" THEN "error" ELSE "ok")
                  IN  [err |-> a.err, Buckets |-> Append(bs, a.b), fs |-> a.fs]
        ELSE LET a == BucketAddPatch(bs[l.latest], fs, patch,
                                     IF fail = "append" THEN "error" ELSE "ok")
             IN  [err |-> a.err, Buckets |-> [bs EXCEPT ![l.latest] = a.b], fs |-> a.fs]

---------------------------------------------------------------------------
(* Categories *)

categoriesFileName == "categories.csv"
categoriesZippedFileName == "categories.csv.zlib"

NewCategories(relativeFilePath, remoteFilePath, zippedHash, unzippedHash, categoryItems) ==
    [ RelativeFilePath |-> relativeFilePath,
      RemoteFilePath   |-> remoteFilePath,
      ZippedHash       |-> zippedHash,
      UnzippedHash     |-> unzippedHash,
      CategoryItems    |-> categoryItems ]

\* os.Create: both files exist and are empty afterwards
CategoriesInit(fs) ==
    setFile(setFile(fs, categoriesFileName, <<>>), categoriesZippedFileName, <<>>)

\* strconv.Itoa / strconv.FormatInt(_, 10)
Itoa(n) == ToString(n)

RECURSIVE categoriesRows(_)
categoriesRows(items) ==
    IF items = <<>> THEN <<>>
    ELSE csvWrite(<< <<Itoa(Head(items).Id)>>, Head(items).Category,
                     Head(items).Subcategory, Head(items).Description >>)
         \o categoriesRows(Tail(items))

CategoriesWrite(c, fs) == setFile(fs, categoriesFileName, categoriesRows(c.CategoryItems))

\* IsChanged answering true whatever the digest
CategoriesAlwaysChanged(c, fs) == TRUE

CategoriesIsChanged(c, fs) == checksumReadSeeker(fs[categoriesFileName]) # c.UnzippedHash

CategoriesCompress(fs) ==
    setFile(fs, categoriesZippedFileName, zlibWrite(fs[categoriesFileName]))

CategoriesHash(c, fs) ==
    [c EXCEPT !.UnzippedHash = checksumReadSeeker(fs[categoriesFileName]),
              !.ZippedHash = checksumReadSeeker(fs[categoriesZippedFileName])]

CategoriesUpload(c, fs, st, t) ==
    storagePut(st, c.RemoteFilePath, fs[categoriesZippedFileName], t)

RECURSIVE fourColumns(_, _)
fourColumns(records, i) ==
    IF i > Len(records) THEN TRUE
    ELSE Len(records[i].line) = 4 /\ fourColumns(records, i + 1)

\* Categories.Download right after Categories.Init.  backend is "ok", or
\* "error" for a backend error other than ErrObjectNotExist; an object that
\* does not exist is the tolerated not-found and leaves the compressed file
\* empty.  step names the statement that returned: the storage call, the
\* checks of the compressed file, those of the snapshot, or the final
\* return nil.
CategoriesDownloadFrom(c, fs, st, backend) ==
    LET got == IF c.RemoteFilePath \in DOMAIN st THEN st[c.RemoteFilePath].bytes ELSE <<>>
        fs1 == setFile(fs, categoriesZippedFileName, got)
    IN  IF backend # "ok" THEN [err |-> TRUE, fs |-> fs, step |-> "storage"]
        ELSE IF c.ZippedHash # checksumReadSeeker(got) THEN [err |-> TRUE, fs |-> fs1, step |-> "unzip"]
        ELSE IF ~zlibHeaderOk(got) THEN [err |-> TRUE, fs |-> fs1, step |-> "unzip"]
        ELSE IF ~zlibStreamOk(got) THEN [err |-> TRUE, fs |-> fs1, step |-> "unzip"]
        ELSE LET fs2 == setFile(fs1, categoriesFileName, zlibRead(got)) IN
             IF c.UnzippedHash # checksumReadSeeker(fs2[categoriesFileName])
             THEN [err |-> TRUE, fs |-> fs2, step |-> "verify"]
             ELSE IF ~fourColumns(csvReadAll(fs2[categoriesFileName]), 1)
             THEN [err |-> TRUE, fs |-> fs2, step |-> "verify"]
             ELSE [err |-> FALSE, fs |-> fs2, step |-> "done"]

\* the call of Master.Download, whose backend answers or reports not-found
CategoriesDownload(c, fs, st) == CategoriesDownloadFrom(c, fs, st, "ok")

---------------------------------------------------------------------------
(* The master document.  Its fields are decimal numbers, a timestamp, file *)
(* names built from digits, letters, dots and dashes, and hex digests,     *)
(* none of which encoding/csv quotes or alters, so the document is kept as *)
(* its sequence of records.                                                *)

\* the row written for the categories (number -1) and for each shard
descriptorRow(number, x, count) ==
    <<Itoa(number), x.RelativeFilePath, "zlib", x.ZippedHash, x.UnzippedHash, Itoa(count)>>

\* now.Format(cbutil.DateTimeFormat): a text with the resolution of a second
DateTime(t) == "D" \o ToString(t)

headerRow(unixTime) == <<"V1", Itoa(unixTime), DateTime(unixTime)>>

masterPath == joinPath(RemoteDir, masterFilename)

\* Master.Public of the configuration under study
Public == TRUE

---------------------------------------------------------------------------
(* Master.UploadToStorageBucket.  fail names the step at which an I/O or   *)
(* backend error is returned: step "compress", "verify", "hash" (the first *)
(* checksum fails), "hashz" (the second fails), "upload" (the object is    *)
(* not stored) or "public" (it is stored and MakePublic fails), at the     *)
(* categories (at = -1), at the shard of index at, or at the master        *)
(* document (at = 0).  A step that is not reached does not fail.           *)

Fail(step, at) == [step |-> step, at |-> at]
NoFail == Fail("none", 0)

publishCategories(c, items, fs, st, unixTime, fail) ==
    LET at == 0 - 1
        fs1 == CategoriesWrite(c, fs)
        out(err, cc, ff, ss, rows) ==
            [err |-> err, c |-> cc, fs |-> ff, st |-> ss, rows |-> rows]
    IN  IF ~CategoriesIsChanged(c, fs1)
        THEN out(FALSE, c, fs1, st, << descriptorRow(at, c, Len(items)) >>)
        ELSE IF fail = Fail("compress", at)
        THEN out(TRUE, c, setFile(fs1, categoriesZippedFileName, <<>>), st, <<>>)
        ELSE LET fs2 == CategoriesCompress(fs1)
                 c1 == CategoriesHash(c, fs2)
                 c2 == [c1 EXCEPT !.RelativeFilePath = timestampName(unixTime, categoriesZippedFileName),
                                  !.RemoteFilePath = joinPath(RemoteDir, timestampName(unixTime, categoriesZippedFileName))]
             IN  IF fail = Fail("hash", at)
                 THEN out(TRUE, [c EXCEPT !.UnzippedHash = NoHash], fs2, st, <<>>)
                 ELSE IF fail = Fail("hashz", at)
                 THEN out(TRUE, [c1 EXCEPT !.ZippedHash = NoHash], fs2, st, <<>>)
                 ELSE IF fail = Fail("upload", at)
                 THEN out(TRUE, c2, fs2, st, <<>>)
                 ELSE IF Public /\ fail = Fail("public", at)
                 THEN out(TRUE, c2, fs2, CategoriesUpload(c2, fs2, st, unixTime), <<>>)
                 ELSE out(FALSE, c2, fs2, CategoriesUpload(c2, fs2, st, unixTime),
                          << descriptorRow(at, c2, Len(items)) >>)

\* the body of the loop over m.Buckets for the shard of index i;
\* uploaded: whether the shard was compressed, renamed and sent
publishBucket(b, i, fs, st, unixTime, fail) ==
    LET out(err, bb, ff, ss, rows, uploaded) ==
            [err |-> err, b |-> bb, fs |-> ff, st |-> ss, rows |-> rows, uploaded |-> uploaded]
        row(bb) == descriptorRow(bb.Number, bb, Len(bb.Patches))
    IN  IF b.IsDeleted THEN out(FALSE, b, fs, st, <<>>, FALSE)
        ELSE IF ~b.IsChanged THEN out(FALSE, b, fs, st, << row(b) >>, FALSE)
        ELSE IF fail = Fail("compress", i)
        THEN out(TRUE, b, setFile(fs, ZippedFileName(b.Number), <<>>), st, <<>>, FALSE)
        ELSE LET fs1 == Compress(b, fs)
                 b1 == Hash(b, fs1)
                 b2 == [b1 EXCEPT !.RelativeFilePath = timestampName(unixTime, ZippedFileName(b.Number)),
                                  !.RemoteFilePath = joinPath(RemoteDir, timestampName(unixTime, ZippedFileName(b.Number)))]
             IN  IF fail = Fail("verify", i) \/ ~VerifyZipped(b, fs1)
                 THEN out(TRUE, b, fs1, st, <<>>, FALSE)
                 ELSE IF fail = Fail("hash", i)
                 THEN out(TRUE, [b EXCEPT !.UnzippedHash = NoHash], fs1, st, <<>>, FALSE)
                 ELSE IF fail = Fail("hashz", i)
                 THEN out(TRUE, [b1 EXCEPT !.ZippedHash = NoHash], fs1, st, <<>>, FALSE)
                 ELSE IF fail = Fail("upload", i)
                 THEN out(TRUE, b2, fs1, st, <<>>, FALSE)
                 ELSE IF Public /\ fail = Fail("public", i)
                 THEN out(TRUE, b2, fs1, Upload(b2, fs1, st, unixTime), <<>>, TRUE)
                 ELSE out(FALSE, b2, fs1, Upload(b2, fs1, st, unixTime), << row(b2) >>, TRUE)

RECURSIVE publishBuckets(_, _, _, _, _, _, _, _)
RECURSIVE bucketPublished(_, _, _, _, _, _, _)

\* the end of the loop body for the shard of index i, p being what
\* publishBucket returned for it
bucketPublished(bs, i, p, unixTime, fail, rows, uploaded) ==
    IF p.err
    THEN [err |-> TRUE, Buckets |-> [bs EXCEPT ![i] = p.b], fs |-> p.fs, st |-> p.st,
          rows |-> rows,
          uploaded |-> IF p.uploaded THEN Append(uploaded, bs[i].Number) ELSE uploaded]
    ELSE publishBuckets([bs EXCEPT ![i] = p.b], i + 1, p.fs, p.st, unixTime, fail,
                        rows \o p.rows,
                        IF p.uploaded THEN Append(uploaded, bs[i].Number) ELSE uploaded)

\* The loop over m.Buckets from index i on.  uploaded: the numbers of the
\* shards sent to the backend, in order.
publishBuckets(bs, i, fs, st, unixTime, fail, rows, uploaded) ==
    IF i > Len(bs)
    THEN [err |-> FALSE, Buckets |-> bs, fs |-> fs, st |-> st, rows |-> rows, uploaded |-> uploaded]
    ELSE bucketPublished(bs, i, publishBucket(bs[i], i, fs, st, unixTime, fail),
                         unixTime, fail, rows, uploaded)

\* what UploadToStorageBucket returns and leaves behind; doc: the records
\* flushed to the master file; failed: the step that returned the error
published(err, bs, c, fs, st, doc, uploaded, fail) ==
    [err |-> err, Buckets |-> bs, Categories |-> c,
     fs |-> setFile(fs, masterFilename, doc), st |-> st,
     uploaded |-> uploaded, failed |-> IF err THEN fail ELSE NoFail]

\* the upload of the master document doc, bk being what the loop returned
publishMaster(c, bk, doc, unixTime, fail) ==
    IF fail = Fail("upload", 0)
    THEN published(TRUE, bk.Buckets, c, bk.fs, bk.st, doc, bk.uploaded, fail)
    ELSE IF Public /\ fail = Fail("public", 0)
    THEN published(TRUE, bk.Buckets, c, bk.fs, storagePut(bk.st, masterPath, doc, unixTime),
                   doc, bk.uploaded, fail)
    ELSE published(FALSE, bk.Buckets, c, bk.fs, storagePut(bk.st, masterPath, doc, unixTime),
                   doc, bk.uploaded, fail)

\* after the loop over m.Buckets, cat being what the categories block
\* returned and bk what the loop returned
bucketsPublished(cat, bk, unixTime, fail) ==
    IF bk.err
    THEN published(TRUE, bk.Buckets, cat.c, bk.fs, bk.st,
                   << headerRow(unixTime) >> \o cat.rows \o bk.rows, bk.uploaded, fail)
    ELSE publishMaster(cat.c, bk, << headerRow(unixTime) >> \o cat.rows \o bk.rows,
                       unixTime, fail)

\* after the categories block
categoriesPublished(bs, cat, unixTime, fail) ==
    IF cat.err
    THEN published(TRUE, bs, cat.c, cat.fs, cat.st, << headerRow(unixTime) >>, <<>>, fail)
    ELSE bucketsPublished(cat,
            publishBuckets(bs, 1, cat.fs, cat.st, unixTime, fail, <<>>, <<>>),
            unixTime, fail)

UploadToStorageBucket(bs, c, items, fs, st, unixTime, fail) ==
    categoriesPublished(bs,
        IF c = Nil
        THEN [err |-> FALSE, c |-> c, fs |-> fs, st |-> st, rows |-> <<>>]
        ELSE publishCategories(c, items, fs, st, unixTime, fail),
        unixTime, fail)

---------------------------------------------------------------------------
(* Master.InitCategories, Master.Download *)

InitCategories(c, items, fs) ==
    IF c = Nil
    THEN [Categories |-> NewCategories("", "", NoHash, NoHash, items), fs |-> CategoriesInit(fs)]
    ELSE [Categories |-> c, fs |-> fs]

\* strconv.Atoi / strconv.ParseInt over the numerals in domain: the number
\* whose decimal text is s, or an error and 0
parseNumber(s, domain) ==
    IF \E n \in domain : Itoa(n) = s
    THEN [err |-> FALSE, n |-> CHOOSE n \in domain : Itoa(n) = s]
    ELSE [err |-> TRUE, n |-> 0]

\* the read loop of Master.Download from record i on
RECURSIVE parseMaster(_, _, _, _, _, _)
parseMaster(doc, i, m, st, items, numbers) ==
    IF i > Len(doc) THEN m
    ELSE LET line == doc[i] IN
         IF Len(line) = 3
         THEN parseMaster(doc, i + 1, [m EXCEPT !.UnixTime = parseNumber(line[2], numbers).n],
                          st, items, numbers)
         ELSE IF Len(line) # 6 THEN parseMaster(doc, i + 1, m, st, items, numbers)
         ELSE IF parseNumber(line[1], numbers).n = 0 - 1
         THEN LET c == NewCategories(line[2], joinPath(RemoteDir, line[2]), line[4], line[5], items)
                  d == CategoriesDownload(c, CategoriesInit(m.fs), st)
              IN  IF d.err THEN [m EXCEPT !.err = TRUE, !.Categories = c, !.fs = d.fs]
                  ELSE parseMaster(doc, i + 1, [m EXCEPT !.Categories = c, !.fs = d.fs],
                                   st, items, numbers)
         ELSE IF parseNumber(line[6], numbers).err THEN [m EXCEPT !.err = TRUE]
         ELSE parseMaster(doc, i + 1,
                [m EXCEPT !.Buckets = Append(@,
                    NewBucket(line[2], joinPath(RemoteDir, line[2]), parseNumber(line[1], numbers).n,
                              line[4], line[5], parseNumber(line[6], numbers).n))],
                st, items, numbers)

\* Master.Download on a master file that Master.Init has just created; a
\* remote master that does not exist is the tolerated not-found.
Download(bs, c, unixTime, items, fs, st, numbers) ==
    LET doc == IF masterPath \in DOMAIN st THEN st[masterPath].bytes ELSE <<>>
    IN  parseMaster(doc, 1,
            [err |-> FALSE, UnixTime |-> unixTime, Buckets |-> bs, Categories |-> c,
             fs |-> setFile(fs, masterFilename, doc)],
            st, items, numbers)

---------------------------------------------------------------------------
(* Master.CleanupOldFiles.  The sweep is taken to run within one second,   *)
(* so every time.Now() it evaluates is the same instant t.                 *)

\* time.Hour * 24, in seconds
CleanupAge == 86400

\* found, without the shards flagged IsDeleted
referencedSkippingDeleted(name, bs, c) ==
    \/ c # Nil /\ name = c.RemoteFilePath
    \/ \E i \in 1..Len(bs) : ~bs[i].IsDeleted /\ name = bs[i].RemoteFilePath
    \/ name = RemoteDir \o "/" \o masterFilename

\* found
referenced(name, bs, c) ==
    \/ c # Nil /\ name = c.RemoteFilePath
    \/ \E i \in 1..Len(bs) : name = bs[i].RemoteFilePath
    \/ name = RemoteDir \o "/" \o masterFilename

\* file.Created.Before(time.Now().Add(-time.Hour * 24))
expired(created, t) == created < t - CleanupAge

deletable(st, bs, c, t) ==
    { name \in DOMAIN st : ~referenced(name, bs, c) /\ expired(st[name].created, t) }

without(st, names) == [ name \in (DOMAIN st) \ names |-> st[name] ]

\* fail: "none"; "ls" (Storage.Ls fails); "delete" (a Storage.Delete fails
\* after the objects in done, which the listing put before it, were deleted)
CleanupOldFiles(st, bs, c, t, fail, done) ==
    IF fail = "ls" THEN [err |-> TRUE, st |-> st]
    ELSE IF fail = "delete" THEN [err |-> TRUE, st |-> without(st, done)]
    ELSE [err |-> FALSE, st |-> without(st, deletable(st, bs, c, t))]

---------------------------------------------------------------------------
(* Appending: Master.AddPatch called again and again on a Master that is   *)
(* empty or holds the shards of a parsed master, in a working directory    *)
(* that may already hold a staging file with the next shard's number.      *)

MaxAdds == 5

BigPatch == DefaultPatch(ActSet, <<"a">>, << <<BLOB>> >>)
SmallPatch == DefaultPatch(ActDelete, <<"a">>, <<>>)

\* a shard as DownloadBuckets leaves it: the staging file holds its rows
stagedShard(number, patches) ==
    [NewBucket(timestampName(0, ZippedFileName(number)),
               joinPath(RemoteDir, timestampName(0, ZippedFileName(number))),
               number, NoHash, NoHash, Len(patches))
     EXCEPT !.Patches = patches]

RECURSIVE rowsOf(_)
rowsOf(patches) ==
    IF patches = <<>> THEN <<>>
    ELSE csvWrite(patchRecord(Head(patches))) \o rowsOf(Tail(patches))

AppendStarts ==
    { [Buckets |-> <<>>, files |-> EmptyDir],
      [Buckets |-> <<>>, files |-> setFile(EmptyDir, FileName(1), rowsOf(<<BigPatch, BigPatch>>))],
      [Buckets |-> << stagedShard(1, <<BigPatch>>) >>,
       files |-> BucketInit(stagedShard(1, <<>>), setFile(EmptyDir, FileName(1), rowsOf(<<BigPatch>>)))],
      [Buckets |-> << stagedShard(3, <<BigPatch, BigPatch>>), stagedShard(1, <<SmallPatch>>) >>,
       files |-> BucketInit(stagedShard(3, <<>>), BucketInit(stagedShard(1, <<>>),
                   setFile(setFile(setFile(EmptyDir, FileName(3), rowsOf(<<BigPatch, BigPatch>>)),
                                   FileName(1), rowsOf(<<SmallPatch>>)),
                           FileName(4), rowsOf(<<SmallPatch>>))))] }

AppendInit ==
    /\ \E s \in AppendStarts : Buckets = s.Buckets /\ files = s.files
    /\ Categories = Nil
    /\ CategoryItems = <<>>
    /\ UnixTime = 0
    /\ objects = EmptyStorage
    /\ now = 0
    /\ rBuckets = <<>>
    /\ rfiles = EmptyDir
    /\ ret = Ret("Init", FALSE, "")
    /\ result = <<>>
    /\ hist = 0
    /\ pc = "ready"

AppendAddPatch(p, fail) ==
    /\ hist < MaxAdds
    /\ LET a == AddPatch(Buckets, files, p, fail) IN
       /\ Buckets' = a.Buckets
       /\ files' = a.fs
       /\ ret' = Ret("AddPatch", a.err, fail)
    /\ result' = p
    /\ hist' = hist + 1
    /\ UNCHANGED <<Categories, CategoryItems, UnixTime, objects, now, rBuckets, rfiles, pc>>

AppendNext ==
    \E p \in {BigPatch, SmallPatch}, fail \in {"none", "isfull", "init", "append"} :
        AppendAddPatch(p, fail)

SpecAppend == AppendInit /\ [][AppendNext]_vars

MaxNumber(bs) == IF bs = <<>> THEN 0
                 ELSE CHOOSE n \in { bs[i].Number : i \in 1..Len(bs) } :
                        \A i \in 1..Len(bs) : bs[i].Number <= n

\* the index of the greatest-numbered shard
Greatest(bs) == CHOOSE i \in 1..Len(bs) : bs[i].Number = MaxNumber(bs)

stagingSize(fs, number) == Size(fileOr(fs, FileName(number)))

\* C6: shard rollover.  On a successful AddPatch: when the staging size of
\* the greatest-numbered shard is above 2,048,000 bytes a new shard, one
\* higher in number, is added at the end of Buckets and receives the patch;
\* when it is at or below, the patch goes to that shard and no shard is
\* allocated; in either case no shard other than the one that is then
\* greatest-numbered receives a row, so a superseded shard never does.
C6_Rollover ==
    [][ (ret'.op = "AddPatch" /\ ~ret'.err /\ Buckets # <<>>) =>
          LET g == Greatest(Buckets)
              over == stagingSize(files, Buckets[g].Number) > 2048000
          IN  /\ over =>
                    /\ Len(Buckets') = Len(Buckets) + 1
                    /\ Buckets'[Len(Buckets')].Number = Buckets[g].Number + 1
                    /\ Buckets'[Len(Buckets')].Patches = <<result'>>
                    /\ \A i \in 1..Len(Buckets) :
                          /\ Buckets'[i] = Buckets[i]
                          /\ files'[FileName(Buckets[i].Number)] = files[FileName(Buckets[i].Number)]
              /\ ~over =>
                    /\ Len(Buckets') = Len(Buckets)
                    /\ Buckets'[g].Patches = Append(Buckets[g].Patches, result')
                    /\ \A i \in 1..Len(Buckets) : i # g =>
                          /\ Buckets'[i] = Buckets[i]
                          /\ files'[FileName(Buckets[i].Number)] = files[FileName(Buckets[i].Number)]
              /\ \A i \in 1..Len(Buckets') :
                    Buckets'[i].Number < MaxNumber(Buckets') =>
                        /\ i <= Len(Buckets) /\ Buckets'[i] = Buckets[i]
                        /\ files'[FileName(Buckets'[i].Number)] = files[FileName(Buckets'[i].Number)]
      ]_vars

\* a shard left at exactly the threshold took one more patch, and the next
\* AddPatch opened the shard one higher
C6_Witness ==
    /\ ret.op = "AddPatch" /\ ~ret.err
    /\ Len(Buckets) = 2
    /\ Buckets[1].Number = 1 /\ Buckets[2].Number = 2
    /\ Len(Buckets[1].Patches) = 3
    /\ stagingSize(files, 1) > 2048000
    /\ Len(Buckets[2].Patches) = 2

\* C12: over any sequence of Master.AddPatch calls the shard numbers in
\* Buckets stay pairwise distinct; no shard's number changes and no shard
\* leaves Buckets; a newly allocated shard has a number greater than every
\* existing shard's; and a successful call appends its patch to the shard
\* that has the greatest number once the call has allocated what it
\* allocates, and to no other shard.
C12_ShardNumbers ==
    /\ [](\A i, j \in 1..Len(Buckets) : Buckets[i].Number = Buckets[j].Number => i = j)
    /\ [][ ret'.op = "AddPatch" =>
            /\ Len(Buckets') \in {Len(Buckets), Len(Buckets) + 1}
            /\ \A i \in 1..Len(Buckets) : Buckets'[i].Number = Buckets[i].Number
            /\ Len(Buckets') = Len(Buckets) + 1 =>
                  \A i \in 1..Len(Buckets) :
                      Buckets'[Len(Buckets')].Number > Buckets[i].Number
            /\ ~ret'.err =>
                  \A i \in 1..Len(Buckets') :
                      LET before == IF i <= Len(Buckets) THEN Buckets[i].Patches ELSE <<>> IN
                      Buckets'[i].Patches =
                          IF Buckets'[i].Number = MaxNumber(Buckets')
                          THEN Append(before, result') ELSE before
       ]_vars

\* from the parsed master with the shards 3 and 1, in that order, shard 3
\* took a third row and the next call allocated shard 4
C12_Witness ==
    /\ ret.op = "AddPatch" /\ ~ret.err
    /\ Len(Buckets) = 3
    /\ Buckets[1].Number = 3 /\ Buckets[2].Number = 1 /\ Buckets[3].Number = 4
    /\ Len(Buckets[1].Patches) = 3
    /\ Buckets[3].Patches = <<result>>

---------------------------------------------------------------------------
(* One shard: AddPatch, Compress, VerifyZipped, Hash, Upload on the        *)
(* writing side; Init, Unzip, VerifyUnzipped, Download and                 *)
(* Master.DownloadBuckets on a fresh descriptor carrying the path and the  *)
(* checksums, with the environment free to alter bytes in between.         *)

MaxRows == 2

ShardKey == <<"a">>
ShardStrings == { <<"1">>, <<>>, <<COMMA>>, <<DQ>>, <<LF>>, <<CR>>, <<CR, LF>> }
ShardPatches ==
    { DefaultPatch(ActSet, ShardKey, <<v>>) : v \in ShardStrings }
    \cup { DefaultPatch(ActSet, ShardKey, <<>>),
           DefaultPatch(ActSet, ShardKey, << <<"1">>, <<>> >>),
           DefaultPatch(ActDelete, <<"a", DQ>>, <<>>),
           DefaultPatch(ActClearAll, ShardKey, <<>>),
           DefaultPatch(<<"?">>, ShardKey, <<>>) }

\* a byte altered in place
Mutate(bytes, i) == [bytes EXCEPT ![i] = "#"]

ShardInit ==
    /\ Buckets = << NewBucket("", "", 1, NoHash, NoHash, 0) >>
    /\ files = BucketInit(NewBucket("", "", 1, NoHash, NoHash, 0), EmptyDir)
    /\ Categories = Nil
    /\ CategoryItems = <<>>
    /\ UnixTime = 0
    /\ objects = EmptyStorage
    /\ now \in {1, 2}
    /\ rBuckets = <<>>
    /\ rfiles = EmptyDir
    /\ ret = Ret("Init", FALSE, "")
    /\ result = <<>>
    /\ hist = [staging |-> <<>>, zipped |-> <<>>, altered |-> FALSE]
    /\ pc = "append"

ShardFrame == UNCHANGED <<Categories, CategoryItems, UnixTime, now, result>>

ShardAddPatch(p) ==
    /\ pc = "append"
    /\ Len(Buckets[1].Patches) < MaxRows
    /\ LET r == BucketAddPatch(Buckets[1], files, p, "ok") IN
       /\ Buckets' = <<r.b>>
       /\ files' = r.fs
       /\ ret' = Ret("AddPatch", r.err, "")
    /\ UNCHANGED <<objects, rBuckets, rfiles, hist, pc>>
    /\ ShardFrame

\* Bucket.AddPatch whose Seek or Flush fails
ShardAddPatchFails(p) ==
    /\ pc = "append"
    /\ Len(Buckets[1].Patches) < MaxRows
    /\ ~ret.err
    /\ LET r == BucketAddPatch(Buckets[1], files, p, "error") IN
       /\ Buckets' = <<r.b>>
       /\ files' = r.fs
       /\ ret' = Ret("AddPatch", r.err, "error")
    /\ UNCHANGED <<objects, rBuckets, rfiles, hist, pc>>
    /\ ShardFrame

ShardCompress ==
    /\ pc = "append"
    /\ files' = Compress(Buckets[1], files)
    /\ ret' = Ret("Compress", FALSE, "")
    /\ pc' = "compressed"
    /\ UNCHANGED <<Buckets, objects, rBuckets, rfiles, hist>>
    /\ ShardFrame

ShardVerifyZipped ==
    /\ pc = "compressed"
    /\ ret' = Ret("VerifyZipped", ~VerifyZipped(Buckets[1], files), "")
    /\ pc' = IF VerifyZipped(Buckets[1], files) THEN "verified" ELSE "rejected"
    /\ UNCHANGED <<Buckets, files, objects, rBuckets, rfiles, hist>>
    /\ ShardFrame

ShardHash ==
    /\ pc = "verified"
    /\ Buckets' = << Hash(Buckets[1], files) >>
    /\ hist' = [hist EXCEPT !.staging = files[FileName(1)],
                            !.zipped = files[ZippedFileName(1)]]
    /\ ret' = Ret("Hash", FALSE, "")
    /\ pc' = "hashed"
    /\ UNCHANGED <<files, objects, rBuckets, rfiles>>
    /\ ShardFrame

\* the caller names the object as UploadToStorageBucket does, then uploads
ShardUpload ==
    /\ pc = "hashed"
    /\ LET rel == timestampName(now, ZippedFileName(1))
           b == [Buckets[1] EXCEPT !.RelativeFilePath = rel,
                                   !.RemoteFilePath = joinPath(RemoteDir, rel)]
       IN  /\ Buckets' = <<b>>
           /\ objects' = Upload(b, files, objects, now)
    /\ ret' = Ret("Upload", FALSE, "")
    /\ pc' = "uploaded"
    /\ UNCHANGED <<files, rBuckets, rfiles, hist>>
    /\ ShardFrame

\* The environment: a byte of the stored object changes, the object
\* disappears, or the reading side's directory already holds a staging or
\* a compressed file for the shard (intact or with one byte altered).
ShardAlter ==
    /\ pc = "uploaded"
    /\ ~hist.altered
    /\ LET name == Buckets[1].RemoteFilePath
           z == objects[name].bytes
           s == files[FileName(1)]
       IN  \/ \E i \in {1, 2, Len(z)} :
                /\ objects' = storagePut(objects, name, Mutate(z, i), objects[name].created)
                /\ rfiles' = rfiles
           \/ /\ objects' = EmptyStorage
              /\ rfiles' = rfiles
           \/ \E sk \in {"same", "first", "last"}, zk \in {"same", "first", "last", "none"} :
                /\ objects' = objects
                /\ rfiles' =
                     LET s1 == IF sk = "same" \/ s = <<>> THEN s
                               ELSE IF sk = "first" THEN Mutate(s, 1) ELSE Mutate(s, Len(s))
                         z1 == IF zk = "same" THEN z
                               ELSE IF zk = "first" THEN Mutate(z, 1)
                               ELSE IF zk = "last" THEN Mutate(z, Len(z)) ELSE <<>>
                     IN  setFile(setFile(EmptyDir, FileName(1), s1), ZippedFileName(1), z1)
    /\ hist' = [hist EXCEPT !.altered = TRUE]
    /\ ret' = Ret("Alter", FALSE, "")
    /\ UNCHANGED <<Buckets, files, rBuckets, pc>>
    /\ ShardFrame

\* NewBucket with the published path and checksums, as Master.Download
\* builds it from a descriptor row
FreshDescriptor ==
    NewBucket(Buckets[1].RelativeFilePath, Buckets[1].RemoteFilePath, 1,
              Buckets[1].ZippedHash, Buckets[1].UnzippedHash, Len(Buckets[1].Patches))


\* Bucket.Init and Bucket.Download on a fresh descriptor
ReaderDownload ==
    /\ pc = "uploaded"
    /\ \E backend \in {"ok", "error"} :
         LET b == FreshDescriptor
             d == BucketDownload(b, BucketInit(b, rfiles), objects, backend)
         IN  /\ rBuckets' = <<d.b>>
             /\ rfiles' = d.fs
             /\ ret' = Ret("Download", d.err, backend)
    /\ pc' = "read"
    /\ UNCHANGED <<Buckets, files, objects, hist>>
    /\ ShardFrame

\* Bucket.Init and Bucket.Unzip on a fresh descriptor
ReaderUnzip ==
    /\ pc = "uploaded"
    /\ LET b == FreshDescriptor
           u == Unzip(b, BucketInit(b, rfiles))
       IN  /\ rBuckets' = <<b>>
           /\ rfiles' = u.fs
           /\ ret' = Ret("Unzip", u.err, "")
    /\ pc' = "read"
    /\ UNCHANGED <<Buckets, files, objects, hist>>
    /\ ShardFrame

\* Bucket.Init and Bucket.VerifyUnzipped on a fresh descriptor
ReaderVerifyUnzipped ==
    /\ pc = "uploaded"
    /\ LET b == FreshDescriptor
           v == VerifyUnzipped(b, BucketInit(b, rfiles))
       IN  /\ rBuckets' = <<v.b>>
           /\ rfiles' = BucketInit(b, rfiles)
           /\ ret' = Ret("VerifyUnzipped", v.err, "")
    /\ pc' = "read"
    /\ UNCHANGED <<Buckets, files, objects, hist>>
    /\ ShardFrame

\* Master.DownloadBuckets on a Master whose Buckets hold the descriptor
ReaderDownloadBuckets ==
    /\ pc = "uploaded"
    /\ \E failAt \in {0, 1} :
         LET d == DownloadBuckets(<<FreshDescriptor>>, rfiles, objects, failAt)
         IN  /\ rBuckets' = d.Buckets
             /\ rfiles' = d.fs
             /\ ret' = Ret("DownloadBuckets", d.err, IF failAt = 0 THEN "ok" ELSE "error")
    /\ pc' = "read"
    /\ UNCHANGED <<Buckets, files, objects, hist>>
    /\ ShardFrame

ShardNext ==
    \/ \E p \in ShardPatches : ShardAddPatch(p)
    \/ \E p \in ShardPatches : ShardAddPatchFails(p)
    \/ ShardCompress
    \/ ShardVerifyZipped
    \/ ShardHash
    \/ ShardUpload
    \/ ShardAlter
    \/ ReaderDownload
    \/ ReaderUnzip
    \/ ReaderVerifyUnzipped
    \/ ReaderDownloadBuckets

SpecShard == ShardInit /\ [][ShardNext]_vars

\* C7 (as claimed): with nothing altered and the backend answering, Download
\* on a fresh descriptor succeeds and yields the Patches that were appended:
\* same length, same order, same action, key and values.
C7_RoundTrip ==
    (ret.op = "Download" /\ ret.backend = "ok" /\ ~hist.altered)
    => (~ret.err /\ rBuckets[1].Patches = Buckets[1].Patches)

C7_Witness ==
    /\ ret.op = "Download" /\ ret.backend = "ok" /\ ~hist.altered /\ ~ret.err
    /\ Len(Buckets[1].Patches) = MaxRows
    /\ rBuckets[1].Patches = Buckets[1].Patches
    /\ \E i \in 1..MaxRows : Buckets[1].Patches[i].Values = <<>>

\* C8: integrity.  (a) Unzip, and Download, fail when the compressed bytes
\* are not the bytes whose digest ZippedHash records, and then leave the
\* staging content and Patches as they were; (b) VerifyUnzipped fails,
\* adding no patch, when the staging bytes are not the bytes whose digest
\* UnzippedHash records; (c) DownloadBuckets returns success only when the
\* staging content of every shard has the recorded unzipped checksum.
C8_Integrity ==
    [][ /\ (ret'.op = "Unzip" /\ fileOr(rfiles, ZippedFileName(1)) # hist.zipped)
            => /\ ret'.err
               /\ fileOr(rfiles', FileName(1)) = fileOr(rfiles, FileName(1))
               /\ rBuckets'[1].Patches = <<>>
        /\ (ret'.op = "Download"
              /\ (ret'.backend # "ok"
                    \/ fileOr(objects, Buckets[1].RemoteFilePath) = <<>>
                    \/ objects[Buckets[1].RemoteFilePath].bytes # hist.zipped))
            => /\ ret'.err
               /\ fileOr(rfiles', FileName(1)) = fileOr(rfiles, FileName(1))
               /\ rBuckets'[1].Patches = <<>>
        /\ (ret'.op = "VerifyUnzipped" /\ fileOr(rfiles, FileName(1)) # hist.staging)
            => /\ ret'.err
               /\ rBuckets'[1].Patches = <<>>
        /\ (ret'.op = "DownloadBuckets" /\ ~ret'.err)
            => \A i \in 1..Len(rBuckets') :
                 /\ rfiles'[FileName(rBuckets'[i].Number)] = hist.staging
                 /\ checksumReadSeeker(rfiles'[FileName(rBuckets'[i].Number)])
                      = Buckets[i].UnzippedHash
      ]_vars

\* an altered object was fetched and refused; altered local files were
\* refused; DownloadBuckets succeeded over a stale staging file
C8_Witness ==
    /\ hist.altered /\ ret.err
    /\ ret.op = "Download" /\ ret.backend = "ok"
    /\ Buckets[1].RemoteFilePath \in DOMAIN objects
    /\ objects[Buckets[1].RemoteFilePath].bytes # hist.zipped
    /\ Len(Buckets[1].Patches) > 0

---------------------------------------------------------------------------
(* The writer: a Master that is constructed and initialised against a      *)
(* storage bucket left by an earlier writer, loads it, and then appends,   *)
(* publishes and sweeps while the clock advances or stands still.          *)

MaxAppends == 2
MaxPublishes == 2
MaxTicks == 2

WriterPatch == DefaultPatch(ActSet, <<"a">>, << <<"b">> >>)

ConfigItems == << [Id |-> 1, Category |-> <<"c">>, Subcategory |-> <<"s">>,
                   Description |-> <<"d", COMMA, "d">>] >>

RECURSIVE addAll(_, _, _)
addAll(bs, fs, patches) ==
    IF patches = <<>> THEN [Buckets |-> bs, fs |-> fs]
    ELSE LET a == AddPatch(bs, fs, Head(patches), "none")
         IN  addAll(a.Buckets, a.fs, Tail(patches))

\* the bucket after a writer appended patches to an empty master and
\* published at second 0
publishedBy(patches, withCategories) ==
    LET a == addAll(<<>>, EmptyDir, patches)
        c == InitCategories(IF withCategories THEN Nil ELSE NewCategories("", "", NoHash, NoHash, <<>>),
                            ConfigItems, a.fs)
    IN  UploadToStorageBucket(a.Buckets, IF withCategories THEN c.Categories ELSE Nil,
                              ConfigItems, c.fs, EmptyStorage, 0, NoFail).st

\* nothing yet, or a full shard 1, a shard 2 and the categories
EarlierStorage ==
    { EmptyStorage,
      publishedBy(<<BigPatch, BigPatch, BigPatch, WriterPatch>>, TRUE) }

\* the seconds the clock can show: the first ones of two successive days
ClockValues == { d * CleanupAge + s : d \in 0..1, s \in 0..MaxTicks }

\* the numbers that can stand in a master document
Numerals == ((0 - 1)..(MaxAppends + MaxAdds)) \cup ClockValues

NoDocument == [doc |-> <<>>, modified |-> {}]

Init ==
    /\ Buckets = <<>>
    /\ Categories = Nil
    /\ CategoryItems = ConfigItems
    /\ UnixTime = 0
    /\ files = setFile(EmptyDir, masterFilename, <<>>)
    /\ objects \in EarlierStorage
    /\ now = 1
    /\ rBuckets = <<>>
    /\ rfiles = EmptyDir
    /\ ret = Ret("Init", FALSE, NoFail)
    /\ result = <<>>
    /\ hist = [attempts |-> 0, appends |-> 0, dirty |-> {},
               prev |-> NoDocument, last |-> NoDocument]
    /\ pc = "new"

Frame == UNCHANGED <<CategoryItems, rBuckets, rfiles>>

CallDownload ==
    /\ pc = "new"
    /\ LET d == Download(Buckets, Categories, UnixTime, CategoryItems, files, objects, Numerals) IN
       /\ Buckets' = d.Buckets
       /\ Categories' = d.Categories
       /\ UnixTime' = d.UnixTime
       /\ files' = d.fs
       /\ ret' = Ret("Download", d.err, NoFail)
       /\ pc' = IF d.err THEN "failed" ELSE "parsed"
    /\ result' = <<>>
    /\ UNCHANGED <<objects, now, hist>>
    /\ Frame

CallDownloadBuckets ==
    /\ pc = "parsed"
    /\ LET d == DownloadBuckets(Buckets, files, objects, 0) IN
       /\ Buckets' = d.Buckets
       /\ files' = d.fs
       /\ ret' = Ret("DownloadBuckets", d.err, NoFail)
       /\ result' = d.calls
       /\ pc' = IF d.err THEN "failed" ELSE "ready"
    /\ UNCHANGED <<Categories, UnixTime, objects, now, hist>>
    /\ Frame

CallInitCategories ==
    /\ pc = "ready"
    /\ Categories = Nil
    /\ LET c == InitCategories(Categories, CategoryItems, files) IN
       /\ Categories' = c.Categories
       /\ files' = c.fs
    /\ ret' = Ret("InitCategories", FALSE, NoFail)
    /\ result' = <<>>
    /\ UNCHANGED <<Buckets, UnixTime, objects, now, hist, pc>>
    /\ Frame

CallAddPatch(p) ==
    /\ pc = "ready"
    /\ hist.appends < MaxAppends
    /\ LET a == AddPatch(Buckets, files, p, "none") IN
       /\ Buckets' = a.Buckets
       /\ files' = a.fs
       /\ ret' = Ret("AddPatch", a.err, NoFail)
       /\ hist' = [hist EXCEPT !.appends = @ + 1,
                               !.dirty = @ \cup {MaxNumber(a.Buckets)}]
    /\ result' = <<>>
    /\ UNCHANGED <<Categories, UnixTime, objects, now, pc>>
    /\ Frame

FailPoints(bs, c) ==
    {NoFail}
    \cup { Fail(step, at) : step \in {"compress", "verify", "hash", "hashz", "upload", "public"},
                            at \in 1..Len(bs) }
    \cup (IF c = Nil THEN {}
          ELSE { Fail(step, 0 - 1) : step \in {"compress", "hash", "hashz", "upload", "public"} })
    \cup { Fail(step, 0) : step \in {"upload", "public"} }

\* the state after a publish that returned u
Returned(u) ==
    /\ Buckets' = u.Buckets
    /\ Categories' = u.Categories
    /\ UnixTime' = now
    /\ files' = u.fs
    /\ objects' = u.st
    /\ ret' = Ret("UploadToStorageBucket", u.err, u.failed)
    /\ result' = u.uploaded
    /\ hist' = IF u.err THEN [hist EXCEPT !.attempts = @ + 1]
               ELSE [hist EXCEPT !.attempts = @ + 1, !.dirty = {},
                                 !.prev = hist.last,
                                 !.last = [doc |-> u.st[masterPath].bytes,
                                           modified |-> hist.dirty]]

CallUploadToStorageBucket(fail) ==
    /\ pc = "ready"
    /\ hist.attempts < MaxPublishes
    /\ UploadToStorageBucket(Buckets, Categories, CategoryItems, files, objects, now, fail).failed = fail
    /\ Returned(UploadToStorageBucket(Buckets, Categories, CategoryItems, files, objects, now, fail))
    /\ UNCHANGED <<now, pc>>
    /\ Frame

CallCleanupOldFiles(fail, done) ==
    /\ pc = "ready"
    /\ fail = "delete" => done # deletable(objects, Buckets, Categories, now)
    /\ fail # "delete" => done = {}
    /\ LET r == CleanupOldFiles(objects, Buckets, Categories, now, fail, done) IN
       /\ objects' = r.st
       /\ ret' = Ret("CleanupOldFiles", r.err, fail)
       /\ result' = (DOMAIN objects) \ (DOMAIN r.st)
    /\ UNCHANGED <<Buckets, Categories, UnixTime, files, now, hist, pc>>
    /\ Frame

\* the clock moves on by a second or by a day
Tick(d) ==
    /\ now + d \in ClockValues
    /\ now' = now + d
    /\ ret' = Ret("Tick", FALSE, NoFail)
    /\ result' = <<>>
    /\ UNCHANGED <<Buckets, Categories, UnixTime, files, objects, hist, pc>>
    /\ Frame

Next ==
    \/ CallDownload
    \/ CallDownloadBuckets
    \/ CallInitCategories
    \/ CallAddPatch(WriterPatch)
    \/ \E fail \in FailPoints(Buckets, Categories) : CallUploadToStorageBucket(fail)
    \/ \E fail \in {"none", "ls", "delete"} :
         \E done \in SUBSET deletable(objects, Buckets, Categories, now) :
            CallCleanupOldFiles(fail, done)
    \/ \E d \in {1, CleanupAge} : Tick(d)

Spec == Init /\ [][Next]_vars

---------------------------------------------------------------------------
(* Sweeping: Master.CleanupOldFiles at some second of the second day, on a *)
(* master whose shards and categories were published during the first      *)
(* seconds of the first day, against a bucket that holds any of the        *)
(* objects those seconds' publishes could have left.  The sweep reads no   *)
(* local file, so the working directory is left out.                       *)

\* a shard published at second t, which the caller may have flagged deleted
publishedShard(number, t, deleted) ==
    [NewBucket(timestampName(t, ZippedFileName(number)),
               joinPath(RemoteDir, timestampName(t, ZippedFileName(number))),
               number, NoHash, NoHash, 0)
     EXCEPT !.IsDeleted = deleted]

publishedCategories(t) ==
    NewCategories(timestampName(t, categoriesZippedFileName),
                  joinPath(RemoteDir, timestampName(t, categoriesZippedFileName)),
                  NoHash, NoHash, ConfigItems)

\* the objects of the first seconds, each created at the second in its name
SweepPool ==
    [ name \in { joinPath(RemoteDir, timestampName(t, ZippedFileName(1))) : t \in 0..MaxTicks }
               \cup { joinPath(RemoteDir, timestampName(0, ZippedFileName(2))),
                      joinPath(RemoteDir, timestampName(0, categoriesZippedFileName)),
                      masterPath }
      |-> [bytes |-> <<>>,
           created |-> IF \E t \in 0..MaxTicks :
                            name = joinPath(RemoteDir, timestampName(t, ZippedFileName(1)))
                       THEN CHOOSE t \in 0..MaxTicks :
                            name = joinPath(RemoteDir, timestampName(t, ZippedFileName(1)))
                       ELSE 0] ]

SweepInit ==
    /\ \E t \in 0..MaxTicks, deleted \in BOOLEAN :
         Buckets = << publishedShard(2, 0, deleted), publishedShard(1, t, FALSE) >>
    /\ Categories \in {Nil, publishedCategories(0)}
    /\ CategoryItems = ConfigItems
    /\ UnixTime = 0
    /\ files = EmptyDir
    /\ \E present \in SUBSET DOMAIN SweepPool :
         objects = [ name \in present |-> SweepPool[name] ]
    /\ now \in { t \in ClockValues : t >= CleanupAge }
    /\ rBuckets = <<>>
    /\ rfiles = EmptyDir
    /\ ret = Ret("Init", FALSE, NoFail)
    /\ result = <<>>
    /\ hist = [attempts |-> 0, appends |-> 0, dirty |-> {},
               prev |-> NoDocument, last |-> NoDocument]
    /\ pc = "ready"

SweepNext ==
    \/ \E fail \in {"none", "ls", "delete"} :
         \E done \in SUBSET deletable(objects, Buckets, Categories, now) :
            CallCleanupOldFiles(fail, done)
    \/ Tick(1)

SpecSweep == SweepInit /\ [][SweepNext]_vars

\* C9: a sweep deletes no object created less than 24 hours before it, no
\* object named by the in-memory categories path, by the path of any shard
\* in Buckets (flagged IsDeleted or not) or by the master path; when no
\* storage call fails it deletes every other object created more than 24
\* hours before it; and it changes nothing else in the bucket.
C9_CleanupSafety ==
    [][ ret'.op = "CleanupOldFiles" =>
          /\ DOMAIN objects' \subseteq DOMAIN objects
          /\ \A name \in DOMAIN objects :
                LET named == \/ name = masterPath
                             \/ Categories # Nil /\ name = Categories.RemoteFilePath
                             \/ \E i \in 1..Len(Buckets) : name = Buckets[i].RemoteFilePath
                IN  /\ objects[name].created > now - 86400 => name \in DOMAIN objects'
                    /\ named => name \in DOMAIN objects'
                    /\ (~ret'.err /\ ~named /\ objects[name].created < now - 86400)
                          => name \notin DOMAIN objects'
                    /\ name \in DOMAIN objects' => objects'[name] = objects[name]
      ]_vars

\* a sweep without a failure has deleted an object, kept an orphan that is
\* not yet older than 24 hours, and kept the older object of a shard that is
\* flagged deleted
C9_Witness ==
    /\ ret.op = "CleanupOldFiles" /\ ~ret.err
    /\ result # {}
    /\ \E name \in DOMAIN objects :
         /\ ~referenced(name, Buckets, Categories)
         /\ objects[name].created >= now - 86400
    /\ \E i \in 1..Len(Buckets) :
         /\ Buckets[i].IsDeleted
         /\ Buckets[i].RemoteFilePath \in DOMAIN objects
         /\ objects[Buckets[i].RemoteFilePath].created < now - 86400

\* the descriptor rows of a master document
descriptorRows(doc) == { doc[i] : i \in { j \in 1..Len(doc) : Len(doc[j]) = 6 } }

hasRow(doc, number) == \E row \in descriptorRows(doc) : row[1] = Itoa(number)
rowFor(doc, number) == CHOOSE row \in descriptorRows(doc) : row[1] = Itoa(number)

\* the object a descriptor row names exists, its bytes hash to the row's
\* zipped checksum and decompress to bytes hashing to its unzipped checksum
resolves(row, st) ==
    LET name == joinPath(RemoteDir, row[2]) IN
    /\ name \in DOMAIN st
    /\ checksumReadSeeker(st[name].bytes) = row[4]
    /\ zlibHeaderOk(st[name].bytes) /\ zlibStreamOk(st[name].bytes)
    /\ checksumReadSeeker(zlibRead(st[name].bytes)) = row[5]

\* C2: once a publish returns success, also after earlier attempts failed,
\* every descriptor row of the uploaded master document names an object that
\* exists and matches the row's two checksums.
C2_RepublishSafe ==
    (ret.op = "UploadToStorageBucket" /\ ~ret.err) =>
        \A row \in descriptorRows(objects[masterPath].bytes) : resolves(row, objects)

\* C3: a publish that fails before the upload of the master document
\* completes leaves the remote master document as it was, and every object
\* that document references still exists with the same bytes.
C3_FailedPublishKeepsPublished ==
    [][ (ret'.op = "UploadToStorageBucket" /\ ret'.err /\ ret'.backend # Fail("public", 0)) =>
          /\ (masterPath \in DOMAIN objects) = (masterPath \in DOMAIN objects')
          /\ masterPath \in DOMAIN objects =>
                /\ objects'[masterPath] = objects[masterPath]
                /\ \A row \in descriptorRows(objects[masterPath].bytes) :
                      LET name == joinPath(RemoteDir, row[2]) IN
                      name \in DOMAIN objects =>
                          /\ name \in DOMAIN objects'
                          /\ objects'[name].bytes = objects[name].bytes
      ]_vars

\* C4: a publish uploads a shard only if the shard received an append
\* since it was loaded or since the previous successful publish, and on a
\* successful publish the row of every other shard keeps the relative path
\* and the checksums it has in the previous master document.
C4_OnlyAppendedShardsUploaded ==
    [][ ret'.op = "UploadToStorageBucket" =>
          /\ \A k \in 1..Len(result') : result'[k] \in hist.dirty
          /\ (~ret'.err /\ masterPath \in DOMAIN objects) =>
                \A i \in 1..Len(Buckets) :
                    (Buckets[i].Number \notin hist.dirty
                       /\ hasRow(objects[masterPath].bytes, Buckets[i].Number)) =>
                    /\ hasRow(objects'[masterPath].bytes, Buckets[i].Number)
                    /\ SubSeq(rowFor(objects'[masterPath].bytes, Buckets[i].Number), 2, 5)
                         = SubSeq(rowFor(objects[masterPath].bytes, Buckets[i].Number), 2, 5)
      ]_vars

\* C5: after two successive successful publishes in each of which a shard
\* was modified, the two master documents name the shard's object
\* differently, and each document's row still resolves to an object that
\* matches the checksums the row records.
C5_DistinctNames ==
    (ret.op = "UploadToStorageBucket" /\ ~ret.err /\ hist.prev # NoDocument) =>
        \A n \in hist.prev.modified \cap hist.last.modified :
            /\ rowFor(hist.prev.doc, n)[2] # rowFor(hist.last.doc, n)[2]
            /\ resolves(rowFor(hist.prev.doc, n), objects)
            /\ resolves(rowFor(hist.last.doc, n), objects)

---------------------------------------------------------------------------
(* Master.CleanupOldLocalFiles.  The files of the working directory are    *)
(* kept under their names; filepath.Glob(m.Dir + "/*") yields each of them *)
(* as the path m.Dir/name.                                                 *)

\* Master.Dir of the configuration under study
Dir == "w"

localPath(name) == Dir \o "/" \o name

\* the found flag of the loop body for the path file
localFound(file, bs, c) ==
    \/ c # Nil /\ file = categoriesFileName
    \/ \E i \in 1..Len(bs) :
          \/ file = localPath(ZippedFileName(bs[i].Number))
          \/ file = localPath(FileName(bs[i].Number))
    \/ file = localPath(masterFilename)

\* failing: the names whose os.Remove returns an error (the loop continues)
CleanupOldLocalFiles(fs, bs, c, failing) ==
    [ name \in { n \in DOMAIN fs : localFound(localPath(n), bs, c) \/ n \in failing }
        |-> fs[name] ]

---------------------------------------------------------------------------
(* Publishing and reading back.  A writer that holds some master state     *)
(* publishes, with or without a failing step, and a second, fresh Master   *)
(* over an empty working directory reads what was published: Download,     *)
(* DownloadBuckets, CompileList.                                           *)

CrlfPatch == DefaultPatch(ActSet, <<"b">>, << <<CR, LF>> >>)

\* what the writer appended before it publishes: some writes of one key,
\* or a write whose value is a line end
PublishLogs ==
    { [i \in 1..k |-> WriterPatch] : k \in 0..MaxAppends } \cup { <<CrlfPatch>> }

\* the i-th shard flagged by the caller (IsDeleted is a field the caller sets)
flagDeleted(bs, i) ==
    IF i \in 1..Len(bs) THEN [bs EXCEPT ![i].IsDeleted = TRUE] ELSE bs

\* the working directory Master.Init leaves in an empty directory
FreshDir == setFile(EmptyDir, masterFilename, <<>>)

writerAppended(d, b, c, patches, deleted) ==
    [Buckets |-> flagDeleted(addAll(b.Buckets, c.fs, patches).Buckets, deleted),
     Categories |-> c.Categories,
     files |-> addAll(b.Buckets, c.fs, patches).fs]

writerLoaded(d, b, items, withCategories, patches, deleted) ==
    writerAppended(d, b,
                   IF withCategories THEN InitCategories(d.Categories, items, b.fs)
                   ELSE [Categories |-> d.Categories, fs |-> b.fs],
                   patches, deleted)

writerParsed(d, st, items, withCategories, patches, deleted) ==
    writerLoaded(d, DownloadBuckets(d.Buckets, d.fs, st, 0), items, withCategories,
                 patches, deleted)

\* a writer after Init, Download, DownloadBuckets, InitCategories when it
\* configures categories, and some AddPatch calls
writerStart(st, items, withCategories, patches, deleted) ==
    writerParsed(Download(<<>>, Nil, 0, items, FreshDir, st, Numerals),
                 st, items, withCategories, patches, deleted)

PublishInit ==
    /\ \E st \in EarlierStorage, items \in {ConfigItems, <<>>}, withCategories \in BOOLEAN,
          patches \in PublishLogs, deleted \in 0..1 :
         /\ items = <<>> => withCategories
         /\ objects = st
         /\ CategoryItems = items
         /\ Buckets = writerStart(st, items, withCategories, patches, deleted).Buckets
         /\ Categories = writerStart(st, items, withCategories, patches, deleted).Categories
         /\ files = writerStart(st, items, withCategories, patches, deleted).files
         /\ hist = [attempts |-> 0, appends |-> Len(patches), dirty |-> {},
                    prev |-> NoDocument, last |-> NoDocument]
    /\ UnixTime = 0
    /\ now = 1
    /\ rBuckets = <<>>
    /\ rfiles = EmptyDir
    /\ ret = Ret("Init", FALSE, NoFail)
    /\ result = <<>>
    /\ pc = "ready"

\* Master.Download of a fresh Master
FreshDownload ==
    /\ pc = "ready"
    /\ masterPath \in DOMAIN objects
    /\ LET d == Download(<<>>, Nil, 0, CategoryItems, FreshDir, objects, Numerals) IN
       /\ rBuckets' = d.Buckets
       /\ rfiles' = d.fs
       /\ ret' = Ret("Download", d.err, NoFail)
       /\ pc' = IF d.err THEN "unread" ELSE "read"
    /\ result' = <<>>
    /\ UNCHANGED <<Buckets, Categories, CategoryItems, UnixTime, files, objects, now, hist>>

\* Master.DownloadBuckets of the fresh Master
FreshDownloadBuckets ==
    /\ pc = "read"
    /\ LET d == DownloadBuckets(rBuckets, rfiles, objects, 0) IN
       /\ rBuckets' = d.Buckets
       /\ rfiles' = d.fs
       /\ ret' = Ret("DownloadBuckets", d.err, NoFail)
       /\ result' = d.calls
       /\ pc' = IF d.err THEN "unread" ELSE "fetched"
    /\ UNCHANGED <<Buckets, Categories, CategoryItems, UnixTime, files, objects, now, hist>>

\* Master.CompileList of the fresh Master
FreshCompileList ==
    /\ pc = "fetched"
    /\ result' = CompileList(rBuckets)
    /\ ret' = Ret("CompileList", FALSE, NoFail)
    /\ pc' = "compiled"
    /\ UNCHANGED <<Buckets, Categories, CategoryItems, UnixTime, files, objects, now,
                   rBuckets, rfiles, hist>>

PublishNext ==
    \/ \E fail \in FailPoints(Buckets, Categories) : CallUploadToStorageBucket(fail)
    \/ pc = "ready" /\ Tick(1)
    \/ FreshDownload
    \/ FreshDownloadBuckets
    \/ FreshCompileList

SpecPublish == PublishInit /\ [][PublishNext]_vars

\* the rows of Buckets that are not flagged IsDeleted, in order
RECURSIVE notDeleted(_)
notDeleted(bs) ==
    IF bs = <<>> THEN <<>>
    ELSE IF Head(bs).IsDeleted THEN notDeleted(Tail(bs))
    ELSE <<Head(bs)>> \o notDeleted(Tail(bs))

\* the shard rows of a master document, in order
RECURSIVE shardRows(_)
shardRows(doc) ==
    IF doc = <<>> THEN <<>>
    ELSE IF Len(Head(doc)) = 6 /\ Head(doc)[1] # Itoa(0 - 1)
    THEN <<Head(doc)>> \o shardRows(Tail(doc))
    ELSE shardRows(Tail(doc))

\* C13: the master document of a successful publish is the header row, the
\* categories row when categories are configured, then one descriptor row
\* per shard not flagged IsDeleted, in Buckets order; and Master.Download of
\* it by a fresh Master succeeds and rebuilds Buckets with the numbers,
\* relative paths and checksums of these rows, in order, fetching no shard.
C13_DocumentRoundTrip ==
    /\ (pc = "ready" /\ ret.op = "UploadToStorageBucket" /\ ~ret.err) =>
          LET doc == objects[masterPath].bytes
              rows == notDeleted(Buckets)
              k == IF Categories = Nil THEN 1 ELSE 2
          IN  /\ Len(doc) = k + Len(rows)
              /\ doc[1] = headerRow(now)
              /\ Categories # Nil => SubSeq(doc[2], 1, 5) = SubSeq(descriptorRow(0 - 1, Categories, 0), 1, 5)
              /\ \A i \in 1..Len(rows) :
                    SubSeq(doc[k + i], 1, 5) = SubSeq(descriptorRow(rows[i].Number, rows[i], 0), 1, 5)
    /\ (pc \in {"read", "unread"} /\ ret.op = "Download") =>
          LET doc == objects[masterPath].bytes
              rows == shardRows(doc)
          IN  /\ ~ret.err
              /\ Len(rBuckets) = Len(rows)
              /\ \A i \in 1..Len(rows) :
                    /\ Itoa(rBuckets[i].Number) = rows[i][1]
                    /\ rBuckets[i].RelativeFilePath = rows[i][2]
                    /\ rBuckets[i].ZippedHash = rows[i][4]
                    /\ rBuckets[i].UnzippedHash = rows[i][5]
                    /\ FileName(rBuckets[i].Number) \notin DOMAIN rfiles
                    /\ ZippedFileName(rBuckets[i].Number) \notin DOMAIN rfiles

C13_Witness ==
    /\ pc = "read" /\ ret.op = "Download" /\ ~ret.err
    /\ Len(rBuckets) = 2
    /\ Len(Buckets) = 3
    /\ Categories # Nil

---------------------------------------------------------------------------
(* Fetching.  A reading Master holds the descriptors of a published master *)
(* document; some of the objects the document names are gone from the      *)
(* storage bucket, and the backend may fail for another reason.            *)

\* shards 1 (full) and 2 and the categories, published at second 0
FetchStorage == publishedBy(<<BigPatch, BigPatch, BigPatch, WriterPatch>>, TRUE)

FetchDocument == FetchStorage[masterPath].bytes

\* the descriptors Master.Download builds from the shard rows
FetchBuckets ==
    parseMaster(shardRows(FetchDocument), 1,
                [err |-> FALSE, UnixTime |-> 0, Buckets |-> <<>>, Categories |-> Nil,
                 fs |-> FreshDir],
                FetchStorage, ConfigItems, Numerals).Buckets

\* the descriptor Master.Download builds from the categories row
FetchCategories ==
    LET line == CHOOSE row \in descriptorRows(FetchDocument) : row[1] = Itoa(0 - 1)
    IN  NewCategories(line[2], joinPath(RemoteDir, line[2]), line[4], line[5], ConfigItems)

\* working directories: empty, or left behind by an earlier run
FetchDirs ==
    { FreshDir,
      setFile(FreshDir, FileName(3), <<"#">>),
      setFile(FreshDir, FileName(1), zlibRead(FetchStorage[FetchBuckets[1].RemoteFilePath].bytes)),
      setFile(FreshDir, FileName(2), zlibRead(FetchStorage[FetchBuckets[2].RemoteFilePath].bytes)),
      setFile(setFile(FreshDir, FileName(1),
                      zlibRead(FetchStorage[FetchBuckets[1].RemoteFilePath].bytes)),
              FileName(2), zlibRead(FetchStorage[FetchBuckets[2].RemoteFilePath].bytes)),
      setFile(setFile(FreshDir, FileName(2), <<"#">>), ZippedFileName(2), <<"#">>),
      setFile(setFile(FreshDir, categoriesFileName, <<"#">>), categoriesZippedFileName, <<"#">>) }

FetchInit ==
    /\ Buckets = FetchBuckets
    /\ Categories = FetchCategories
    /\ CategoryItems = ConfigItems
    /\ UnixTime = 0
    /\ files \in FetchDirs
    /\ \E gone \in SUBSET ((DOMAIN FetchStorage) \ {masterPath}) :
         objects = [ name \in (DOMAIN FetchStorage) \ gone |-> FetchStorage[name] ]
    /\ now = 1
    /\ rBuckets = <<>>
    /\ rfiles = EmptyDir
    /\ ret = Ret("Init", FALSE, "ok")
    /\ result = [step |-> "none", at |-> 0]
    /\ hist = [fetched |-> {}]
    /\ pc = "parsed"

\* Bucket.Init and Bucket.Download of the i-th descriptor
FetchBucket(i, backend) ==
    /\ i \notin hist.fetched
    /\ LET d == BucketDownload(Buckets[i], BucketInit(Buckets[i], files), objects, backend) IN
       /\ Buckets' = [Buckets EXCEPT ![i] = d.b]
       /\ files' = d.fs
       /\ ret' = Ret("Bucket.Download", d.err, backend)
       /\ result' = [step |-> d.step, at |-> i]
    /\ hist' = [hist EXCEPT !.fetched = @ \cup {i}]
    /\ UNCHANGED <<Categories, CategoryItems, UnixTime, objects, now, rBuckets, rfiles, pc>>

\* Categories.Init and Categories.Download
FetchSnapshot(backend) ==
    /\ 0 \notin hist.fetched
    /\ LET d == CategoriesDownloadFrom(Categories, CategoriesInit(files), objects, backend) IN
       /\ files' = d.fs
       /\ ret' = Ret("Categories.Download", d.err, backend)
       /\ result' = [step |-> d.step, at |-> 0]
    /\ hist' = [hist EXCEPT !.fetched = @ \cup {0}]
    /\ UNCHANGED <<Buckets, Categories, CategoryItems, UnixTime, objects, now, rBuckets,
                   rfiles, pc>>

\* Master.DownloadBuckets over all the descriptors
FetchAll(failAt) ==
    /\ hist.fetched = {}
    /\ LET d == DownloadBuckets(Buckets, files, objects, failAt) IN
       /\ Buckets' = d.Buckets
       /\ files' = d.fs
       /\ ret' = Ret("DownloadBuckets", d.err, IF failAt = 0 THEN "ok" ELSE "error")
       /\ result' = [step |-> "none", at |-> failAt, calls |-> d.calls]
    /\ hist' = [hist EXCEPT !.fetched = 1..Len(Buckets)]
    /\ UNCHANGED <<Categories, CategoryItems, UnixTime, objects, now, rBuckets, rfiles, pc>>

\* Master.CleanupOldLocalFiles, the removal of the files in failing fails
FetchCleanupOldLocalFiles(failing) ==
    /\ ret.op # "CleanupOldLocalFiles"
    /\ files' = CleanupOldLocalFiles(files, Buckets, Categories, failing)
    /\ ret' = Ret("CleanupOldLocalFiles", FALSE, failing)
    /\ result' = [step |-> "none", at |-> 0]
    /\ UNCHANGED <<Buckets, Categories, CategoryItems, UnixTime, objects, now, rBuckets,
                   rfiles, hist, pc>>

FetchNext ==
    \/ \E failing \in SUBSET {FileName(3), categoriesFileName} :
          FetchCleanupOldLocalFiles(failing)
    \/ \E i \in 1..Len(Buckets), backend \in {"ok", "error"} : FetchBucket(i, backend)
    \/ \E backend \in {"ok", "error"} : FetchSnapshot(backend)
    \/ \E failAt \in 0..Len(Buckets) : FetchAll(failAt)

SpecFetch == FetchInit /\ [][FetchNext]_vars

\* C14: a not-found from the backend for the compressed artifact of a shard
\* or of the categories is not what makes Download return: Download goes on
\* to its checks with an empty compressed file.  Any other backend error
\* makes Download return an error at the storage call, before anything is
\* decompressed or verified.
C14_NotFoundTolerated ==
    [][ /\ ret'.op = "Bucket.Download" =>
             LET b == Buckets[result'.at] IN
             /\ ret'.backend = "error" =>
                   /\ ret'.err /\ result'.step = "storage"
                   /\ Buckets' = Buckets
                   /\ fileOr(files', FileName(b.Number)) = fileOr(files, FileName(b.Number))
             /\ (ret'.backend = "ok" /\ b.RemoteFilePath \notin DOMAIN objects) =>
                   /\ result'.step # "storage"
                   /\ files'[ZippedFileName(b.Number)] = <<>>
        /\ ret'.op = "Categories.Download" =>
             /\ ret'.backend = "error" =>
                   /\ ret'.err /\ result'.step = "storage"
                   /\ files'[categoriesFileName] = <<>>
             /\ (ret'.backend = "ok" /\ Categories.RemoteFilePath \notin DOMAIN objects) =>
                   /\ result'.step # "storage"
                   /\ files'[categoriesZippedFileName] = <<>>
      ]_vars

C14_Witness ==
    /\ ret.op = "Bucket.Download" /\ ret.backend = "ok"
    /\ result.at = 2
    /\ Buckets[2].RemoteFilePath \notin DOMAIN objects
    /\ result.step = "unzip"
    /\ files[ZippedFileName(2)] = <<>>
    /\ 0 \in hist.fetched

\* the staging file of the shard holds the content its descriptor records
\* and every row of it passes the validation
stagingValid(b, fs) ==
    /\ FileName(b.Number) \in DOMAIN fs
    /\ checksumReadSeeker(fs[FileName(b.Number)]) = b.UnzippedHash
    /\ \A k \in 1..Len(csvReadAll(fs[FileName(b.Number)])) :
          /\ Validation(csvReadAll(fs[FileName(b.Number)])[k].line)
          /\ Len(csvReadAll(fs[FileName(b.Number)])[k].line) >= 2

\* the numbers of the shards among the first n of bs whose staging file is
\* not valid, in Buckets order
RECURSIVE toFetch(_, _, _)
toFetch(bs, n, fs) ==
    IF n = 0 THEN <<>>
    ELSE IF stagingValid(bs[n], fs) THEN toFetch(bs, n - 1, fs)
    ELSE Append(toFetch(bs, n - 1, fs), bs[n].Number)

\* C15: DownloadBuckets goes through the shards in Buckets order.  A shard
\* whose staging file is valid is not fetched; every other shard it comes
\* to is fetched and verified.  It stops with an error at the first shard
\* whose fetch or verification fails: the shards after it are neither
\* initialised nor fetched.  When it returns nil every staging file holds
\* the content its descriptor records.
C15_DownloadBucketsOrder ==
    [][ ret'.op = "DownloadBuckets" =>
          LET calls == result'.calls
              reached == IF ret'.err
                         THEN CHOOSE i \in 1..Len(Buckets) :
                                 Buckets[i].Number = calls[Len(calls)]
                         ELSE Len(Buckets)
          IN  /\ ret'.err => calls # <<>>
              /\ calls = toFetch(Buckets, reached, files)
              /\ \A j \in 1..Len(Buckets) :
                    /\ j > reached =>
                          /\ Buckets'[j] = Buckets[j]
                          /\ \A name \in {FileName(Buckets[j].Number),
                                           ZippedFileName(Buckets[j].Number)} :
                                /\ (name \in DOMAIN files') = (name \in DOMAIN files)
                                /\ fileOr(files', name) = fileOr(files, name)
                    /\ (j < reached \/ ~ret'.err) =>
                          /\ stagingValid(Buckets[j], files')
                          /\ Len(Buckets'[j].Patches)
                               = Len(csvReadAll(files'[FileName(Buckets[j].Number)]))
                    /\ (j <= reached /\ stagingValid(Buckets[j], files)) =>
                          fileOr(files', ZippedFileName(Buckets[j].Number))
                            = fileOr(files, ZippedFileName(Buckets[j].Number))
      ]_vars

\* the first shard is found valid locally, the second is fetched
C15_Witness ==
    /\ ret.op = "DownloadBuckets" /\ ~ret.err
    /\ result.calls = <<2>>
    /\ Len(Buckets[1].Patches) = 3

\* the fetch of the first shard fails and the second is left alone
C15_WitnessAbort ==
    /\ ret.op = "DownloadBuckets" /\ ret.err
    /\ result.calls = <<1>>
    /\ FileName(2) \notin DOMAIN files

\* the categories objects a publish can name
categoriesObjects ==
    { joinPath(RemoteDir, timestampName(t, categoriesZippedFileName)) : t \in ClockValues \cup {0} }

\* C16: a publish rewrites the categories snapshot.  When its digest
\* equals the recorded unzipped checksum the compressed file, the stored
\* categories objects and the path and checksums stay as they are, and the
\* categories row is written with them.  When it differs the row is written
\* only after the snapshot was compressed, its two checksums recorded, its
\* name set to the publish second and the categories file name, and the
\* compressed file stored under that name; a failure of one of these steps
\* leaves the master file with its header row only.
C16_CategoriesRow ==
    [][ (ret'.op = "UploadToStorageBucket" /\ Categories # Nil) =>
          LET snapshot == files'[categoriesFileName]
              doc == files'[masterFilename]
              zipped == files'[categoriesZippedFileName]
          IN  /\ snapshot = categoriesRows(CategoryItems)
              /\ checksumReadSeeker(snapshot) = Categories.UnzippedHash =>
                    /\ Categories' = Categories
                    /\ zipped = files[categoriesZippedFileName]
                    /\ \A name \in categoriesObjects :
                          /\ (name \in DOMAIN objects') = (name \in DOMAIN objects)
                          /\ name \in DOMAIN objects => objects'[name] = objects[name]
                    /\ Len(doc) >= 2
                    /\ doc[2] = descriptorRow(0 - 1, Categories, Len(CategoryItems))
              /\ checksumReadSeeker(snapshot) # Categories.UnzippedHash =>
                    /\ (ret'.err /\ ret'.backend.at = 0 - 1) => doc = << headerRow(now) >>
                    /\ ~(ret'.err /\ ret'.backend.at = 0 - 1) =>
                          /\ zipped = zlibWrite(snapshot)
                          /\ Categories'.UnzippedHash = checksumReadSeeker(snapshot)
                          /\ Categories'.ZippedHash = checksumReadSeeker(zipped)
                          /\ Categories'.RelativeFilePath
                               = timestampName(now, categoriesZippedFileName)
                          /\ Categories'.RemoteFilePath
                               = joinPath(RemoteDir, Categories'.RelativeFilePath)
                          /\ Categories'.RemoteFilePath \in DOMAIN objects'
                          /\ objects'[Categories'.RemoteFilePath].bytes = zipped
                          /\ Len(doc) >= 2
                          /\ doc[2] = descriptorRow(0 - 1, Categories', Len(CategoryItems))
      ]_vars

\* a loaded writer whose categories are as published at second 0 has
\* published again at a later second: the row still names the old object
C16_Witness ==
    /\ ret.op = "UploadToStorageBucket" /\ ~ret.err
    /\ Categories # Nil
    /\ now >= 1
    /\ Len(files[masterFilename]) >= 2
    /\ files[masterFilename][2][2] = timestampName(0, categoriesZippedFileName)
    /\ hist.attempts = 1

\* the files the in-memory master refers to
localReferenced(name, bs, c) ==
    \/ name = masterFilename
    \/ \E i \in 1..Len(bs) : name \in {FileName(bs[i].Number), ZippedFileName(bs[i].Number)}
    \/ c # Nil /\ name \in {categoriesFileName, categoriesZippedFileName}

\* C17: CleanupOldLocalFiles keeps every file the in-memory master refers
\* to (the master file, the staging and the compressed file of every shard
\* of Buckets, the two categories files when categories are configured),
\* removes every other file of the working directory whose removal does not
\* fail, and keeps the files whose removal fails.
C17_LocalCleanup ==
    [][ ret'.op = "CleanupOldLocalFiles" =>
          \A name \in DOMAIN files :
              /\ localReferenced(name, Buckets, Categories) =>
                    name \in DOMAIN files' /\ files'[name] = files[name]
              /\ ~localReferenced(name, Buckets, Categories) =>
                    (name \in DOMAIN files') = (name \in ret'.backend)
      ]_vars

\* C18: CompileList and CalculateWastage change nothing of the master:
\* Buckets (every shard's Patches, IsChanged, IsDeleted, checksums and
\* paths), the categories and the files are after the call what they were
\* before.  CompileList returns what it would return without the shards
\* flagged IsDeleted in the list; CalculateWastage counts the occurrences of
\* a key in every shard, flagged or not.
C18_ReadOnly ==
    [][ ret'.op \in {"CompileList", "CalculateWastage"} =>
          /\ Buckets' = Buckets
          /\ Categories' = Categories /\ CategoryItems' = CategoryItems
          /\ files' = files /\ objects' = objects /\ UnixTime' = UnixTime
          /\ ret'.op = "CompileList" =>
                result' = FoldLeft(Flatten(notDeleted(Buckets), FALSE))
          /\ (ret'.op = "CalculateWastage" /\ Flatten(Buckets, FALSE) # <<>>) =>
                LET all == Flatten(Buckets, FALSE)
                    counted == SumOver([k \in KeysOf(all) |-> Occurrences(all, k)], KeysOf(all))
                    single == Cardinality({ k \in KeysOf(all) : Occurrences(all, k) % 2 = 1 })
                IN  /\ counted = Len(all)
                    /\ result' = (100 * (counted - single)) \div Cardinality(KeysOf(all))
      ]_vars

\* the wastage over a list with a flagged shard differs from the wastage
\* over the shards that are not flagged
C18_Witness ==
    /\ ret.op = "CalculateWastage"
    /\ \E i \in 1..Len(Buckets) : Buckets[i].IsDeleted /\ Buckets[i].Patches # <<>>
    /\ Flatten(Buckets, TRUE) # <<>>
    /\ result # (100 * WastedOf(Flatten(Buckets, TRUE)))
                   \div Cardinality(KeysOf(Flatten(Buckets, TRUE)))

\* C19: a Bucket.AddPatch that returns nil has appended the bytes of one
\* record to the staging file, which read back holds one row more after
\* the rows it held, and one element to the end of Patches, and has set
\* IsChanged; Number, the paths and the checksums are what they were.  A
\* Bucket.AddPatch that returns an error leaves the descriptor, Patches and
\* IsChanged included, as it was.
C19_AppendOnly ==
    [][ ret'.op = "AddPatch" =>
          LET b == Buckets[1]
              after == Buckets'[1]
              n == Len(b.Patches)
              log == files[FileName(1)]
              logAfter == files'[FileName(1)]
          IN  /\ ~ret'.err =>
                    /\ Len(after.Patches) = n + 1
                    /\ SubSeq(after.Patches, 1, n) = b.Patches
                    /\ logAfter = log \o csvWrite(patchRecord(after.Patches[n + 1]))
                    /\ Len(csvReadAll(logAfter)) = Len(csvReadAll(log)) + 1
                    /\ SubSeq(csvReadAll(logAfter), 1, Len(csvReadAll(log))) = csvReadAll(log)
                    /\ after.IsChanged
                    /\ [after EXCEPT !.Patches = b.Patches, !.IsChanged = b.IsChanged] = b
              /\ ret'.err => after = b
      ]_vars

\* a second row was appended after a first
C19_Witness ==
    /\ ret.op = "AddPatch" /\ ~ret.err
    /\ Len(Buckets[1].Patches) = 2
    /\ Len(csvReadAll(files[FileName(1)])) = 2
    /\ Buckets[1].IsChanged

\* C20: when a writer has appended patches and then published once, with
\* success, a fresh Master over an empty working directory gets through
\* Download and DownloadBuckets and its CompileList returns the mapping
\* CompileList returns on the writer.
C20_ReaderWriterEquivalence ==
    (hist.attempts = 1 /\ hist.last # NoDocument) =>
        /\ pc # "unread"
        /\ pc = "compiled" => result = CompileList(Buckets)

\* the patches Bucket.VerifyUnzipped builds from the rows of a staging file
parsedPatches(bytes) == verifyRows(csvReadAll(bytes), 1, <<>>).Patches

\* C21: in every state the Patches of each shard are, element by element,
\* the patches parsed from the rows of the shard's staging file, also when
\* a staging file with the number of a newly allocated shard was already in
\* the working directory.
C21_PatchesMirrorStaging ==
    \A i \in 1..Len(Buckets) :
        FileName(Buckets[i].Number) \in DOMAIN files =>
            Buckets[i].Patches = parsedPatches(files[FileName(Buckets[i].Number)])

\* C22: CleanupOldFiles deletes no object that a row of the master
\* document stored at the remote master path names, whatever AddPatch,
\* UploadToStorageBucket (returning nil or failing part-way) and
\* CleanupOldFiles calls the writer made before.
C22_SweepKeepsPublished ==
    [][ (ret'.op = "CleanupOldFiles" /\ masterPath \in DOMAIN objects) =>
          \A row \in descriptorRows(objects[masterPath].bytes) :
              joinPath(RemoteDir, row[2]) \in DOMAIN objects =>
                  joinPath(RemoteDir, row[2]) \in DOMAIN objects'
      ]_vars

---------------------------------------------------------------------------
(* Reading one's writes.  A writer whose caller may have flagged a shard   *)
(* IsDeleted appends a patch and then compiles the list.                   *)

\* the shards stand in the order in which AddPatch allocated them
ascending(bs) == \A i, j \in 1..Len(bs) : i < j => bs[i].Number < bs[j].Number

SetPatch == DefaultPatch(ActSet, <<"a">>, << <<"1">> >>)

RywInit ==
    /\ \E s \in { x \in AppendStarts : ascending(x.Buckets) }, deleted \in 0..1 :
         /\ Buckets = flagDeleted(s.Buckets, deleted)
         /\ files = s.files
    /\ Categories = Nil
    /\ CategoryItems = <<>>
    /\ UnixTime = 0
    /\ objects = EmptyStorage
    /\ now = 0
    /\ rBuckets = <<>>
    /\ rfiles = EmptyDir
    /\ ret = Ret("Init", FALSE, "")
    /\ result = <<>>
    /\ hist = [adds |-> 0, last |-> <<>>]
    /\ pc = "ready"

\* Master.AddPatch; last keeps the patch when the call returned nil
RywAddPatch(p, fail) ==
    /\ hist.adds < MaxAdds
    /\ LET a == AddPatch(Buckets, files, p, fail) IN
       /\ Buckets' = a.Buckets
       /\ files' = a.fs
       /\ ret' = Ret("AddPatch", a.err, fail)
       /\ hist' = [adds |-> hist.adds + 1, last |-> IF a.err THEN <<>> ELSE <<p>>]
    /\ result' = <<>>
    /\ pc' = "ready"
    /\ UNCHANGED <<Categories, CategoryItems, UnixTime, objects, now, rBuckets, rfiles>>

\* Master.CompileList
RywCompileList ==
    /\ pc = "ready"
    /\ result' = CompileList(Buckets)
    /\ ret' = Ret("CompileList", FALSE, "")
    /\ pc' = "compiled"
    /\ UNCHANGED <<Buckets, Categories, CategoryItems, UnixTime, files, objects, now,
                   rBuckets, rfiles, hist>>

RywNext ==
    \/ \E p \in {SetPatch, SmallPatch, BigPatch}, fail \in {"none", "append"} :
          RywAddPatch(p, fail)
    \/ RywCompileList

SpecRyw == RywInit /\ [][RywNext]_vars

\* C23: the CompileList that follows an AddPatch returning nil maps the
\* key of a Set to the values of the Set and does not hold the key of a
\* Delete, also when shards are flagged IsDeleted.
C23_ReadYourWrites ==
    (pc = "compiled" /\ hist.last # <<>>) =>
        LET p == hist.last[1] IN
        /\ p.Action = ActSet => p.Key \in DOMAIN result /\ result[p.Key] = p.Values
        /\ p.Action = ActDelete => p.Key \notin DOMAIN result

====
